---- MODULE Spec2Model ----
(***************************************************************************)
(* LectureChat: the ingestion pipeline (ProcessingService.processFile),    *)
(* the upload route that starts it, and the reprocess / delete / chat      *)
(* routes that share the record store and the vector index with it.        *)
(*                                                                         *)
(* Every await of the JavaScript code is a step of its own: the event loop *)
(* may run any other handler between two awaits of one handler.            *)
(***************************************************************************)
EXTENDS Integers, Sequences, FiniteSets, TLC

\* ------------------------------------------------------------------ bounds
MaxChunks == 2        \* chunks the chunker may return for one transcript
MaxReprocess == 1     \* reprocess requests served in one behaviour
MaxChats == 1         \* chat requests served in one behaviour

Videos == {"v1"}
RpIds == 1..MaxReprocess
ChatIds == 1..MaxChats

\* ------------------------------------------------------------- record store
Null == << >>         \* error_message null (also the falsy empty message)

\* processingStages, with the progress processFile writes with each of them
processingStages ==
  [UPLOADING |-> "uploading", EXTRACTING_AUDIO |-> "extracting_audio",
   TRANSCRIBING |-> "transcribing", CHUNKING |-> "chunking",
   EMBEDDING |-> "embedding", STORING |-> "storing",
   COMPLETED |-> "completed", FAILED |-> "failed"]

NoVideo == [exists |-> FALSE, status |-> "none", stage |-> "none",
            progress |-> 0, error |-> Null]

\* the row the upload route inserts
UploadInsert == [exists |-> TRUE, status |-> "processing",
                 stage |-> processingStages.UPLOADING, progress |-> 5,
                 error |-> Null]

StatusForStage_Processing(stage) == "processing"

\* updateProcessingStatus: the status written with a stage
StatusForStage(stage) ==
  IF stage = processingStages.COMPLETED THEN "ready"
  ELSE IF stage = processingStages.FAILED THEN "failed"
  ELSE "processing"

updateProcessingStatus(row, stage, progress, errorMessage) ==
  IF ~row.exists THEN row          \* .eq('id', videoId) matches no row
  ELSE [row EXCEPT !.stage = stage, !.progress = progress,
                   !.status = StatusForStage(stage),
                   !.error = IF errorMessage # Null THEN errorMessage ELSE @]

HandlerFailUpdate_Requeues(row, message) ==
  IF ~row.exists THEN row
  ELSE [row EXCEPT !.status = "processing", !.stage = "uploading",
                   !.error = message]

\* the update of the setImmediate callback's catch (progress is not written)
HandlerFailUpdate(row, message) ==
  IF ~row.exists THEN row
  ELSE [row EXCEPT !.status = "failed", !.stage = processingStages.FAILED,
                   !.error = message]

ReprocessReset_KeepsError(row) ==
  IF ~row.exists THEN row
  ELSE [row EXCEPT !.status = "processing",
                   !.stage = "uploading", !.progress = 5]

\* the update of the reprocess route
ReprocessReset(row) ==
  IF ~row.exists THEN row
  ELSE [row EXCEPT !.status = "processing",
                   !.stage = processingStages.UPLOADING,
                   !.progress = 5, !.error = Null]

\* ------------------------------------------------------------ processFile
\* the status writes of processFile's try block, in program order, each
\* followed by the work it announces
StatusSteps ==
  << [pc |-> "st_extract",    stage |-> processingStages.EXTRACTING_AUDIO, progress |-> 10,  next |-> "extract"],
     [pc |-> "st_transcribe", stage |-> processingStages.TRANSCRIBING,     progress |-> 25,  next |-> "transcribe"],
     [pc |-> "st_chunk",      stage |-> processingStages.CHUNKING,         progress |-> 50,  next |-> "chunk"],
     [pc |-> "st_embed",      stage |-> processingStages.EMBEDDING,        progress |-> 70,  next |-> "embed"],
     [pc |-> "st_store",      stage |-> processingStages.STORING,          progress |-> 85,  next |-> "store"],
     [pc |-> "st_completed",  stage |-> processingStages.COMPLETED,        progress |-> 100, next |-> "cleanup"] >>

StatusPcs == {StatusSteps[i].pc : i \in 1..Len(StatusSteps)}
StepAt(pc) == CHOOSE i \in 1..Len(StatusSteps) : StatusSteps[i].pc = pc

\* wrappers the services put around a thrown message: `${prefix}: ${message}`
Wrap(prefix, message) == <<prefix>> \o message

CleanupPropagates_Uncaught == TRUE

\* cleanup() catches whatever audioExtractor.cleanup throws
CleanupPropagates == FALSE

VARIABLES
  videos,        \* videos table: Videos -> row
  transcripts,   \* transcripts table: Videos -> number of rows
  textChunks,    \* text_chunks table: Videos -> set of chunk_index
  exchanges,     \* chat_conversations table: Videos -> number of rows
  vectors,       \* vector index: Videos -> set of chunkIndex of its records
  deleteCalls,   \* log of deleteVideoVectors calls: [by, video]
  plPc,          \* position of the recording's background task
  plChunks,      \* chunks returned by chunkText (their number)
  plEmbedded,    \* chunks of chunksWithEmbeddings that carry an embedding
  plErr,         \* message of the error in flight / thrown by processFile
  plWrites,      \* status writes processFile issued: <<[stage, progress]>>
  plWork,        \* stage work processFile started, in order
  plStored,      \* chunkIndex of the records this run upserted
  rp,            \* reprocess handlers: RpIds -> [pc, video, read]
  dl,            \* delete handlers: Videos -> pc
  chat           \* chat handlers: ChatIds -> [pc, video]

store == <<videos, transcripts, textChunks, exchanges, vectors>>
pipeline == <<plPc, plChunks, plEmbedded, plErr, plWrites, plWork, plStored>>
handlers == <<rp, dl, chat>>

\* One question answered by generateRAGResponse, one call of
\* extractTimestamps and one run of generateEmbeddings + storeChunks, each
\* followed at the grain of its own awaits.
VARIABLES
  ragPc,         \* position of generateRAGResponse
  ragIndex,      \* vector index as the question's embedding scores it
  ragCalls,      \* searchSimilar calls issued: <<[options, results]>>
  ragContext,    \* searchResults the context is built from
  ragGenerated,  \* number of generateAIResponse calls
  ragResult,     \* value generateRAGResponse returned
  ragError,      \* message of the error generateRAGResponse threw
  ragReply,      \* the chat route's response: [status, success, response, error]
  citePc,        \* position of the extractTimestamps call
  citeResponse,  \* time tokens of the answer text, in order of occurrence
  citeContext,   \* context chunks handed to extractTimestamps
  citeResult,    \* value extractTimestamps returned
  embPc,         \* position of the embedding / storage run
  embChunks,     \* chunks handed to generateEmbeddings
  embBatch,      \* index of the batch being processed
  embItem,       \* processIndividually: index of the chunk in the batch
  embRetry,      \* retryCount of the call in progress
  embDelays,     \* delays the call in progress has waited
  embCalls,      \* finished calls: <<[svc, input, delays, ok]>>
  embResults,    \* chunksWithEmbeddings
  upResults      \* storeChunks results: [successfulBatches, failedBatches]

rag == <<ragPc, ragIndex, ragCalls, ragContext, ragGenerated, ragResult,
         ragError, ragReply>>
cite == <<citePc, citeResponse, citeContext, citeResult>>
emb == <<embPc, embChunks, embBatch, embItem, embRetry, embDelays, embCalls,
         embResults, upResults>>


\* no response sent
NoReply == [status |-> 0, success |-> FALSE, response |-> << >>,
            error |-> << >>]

\* generateRAGResponse not called
RagIdle ==
  /\ ragPc = "idle"
  /\ ragIndex = {}
  /\ ragCalls = << >>
  /\ ragContext = << >>
  /\ ragGenerated = 0
  /\ ragResult = Null
  /\ ragError = << >>
  /\ ragReply = NoReply

\* extractTimestamps not called
CiteIdle ==
  /\ citePc = "idle"
  /\ citeResponse = << >>
  /\ citeContext = << >>
  /\ citeResult = << >>

\* generateEmbeddings not called
EmbIdle ==
  /\ embPc = "idle"
  /\ embChunks = << >>
  /\ embBatch = 0
  /\ embItem = 0
  /\ embRetry = 0
  /\ embDelays = << >>
  /\ embCalls = << >>
  /\ embResults = << >>
  /\ upResults = [successfulBatches |-> 0, failedBatches |-> 0]

\* ---------------------------------------------------- service state
VARIABLES
  ixIndex,   \* the index at the vector service: absent, creating, ready
  ixPc,   \* each initializeIndex call's position
  ixElapsed,   \* Date.now() - startTime of each call's waitForIndexReady
  ixLog   \* createIndex calls, readiness confirmations and upserts, in order

ix == <<ixIndex, ixPc, ixElapsed, ixLog>>

\* initializeIndex not called
IxIdle ==
  /\ ixIndex = "absent"
  /\ ixPc = << >>
  /\ ixElapsed = << >>
  /\ ixLog = << >>

VARIABLES
  ckPc,   \* chunkText's position
  ckText,   \* the transcript text, a sequence of characters
  ckSegments,   \* the transcript's segments: [length, start, end, confidence]
  ckFrom,   \* first character of the splitter's last window
  ckTo,   \* last character of the splitter's last window
  ckChunks   \* chunksWithMetadata, with the window each chunk was cut from

ck == <<ckPc, ckText, ckSegments, ckFrom, ckTo, ckChunks>>

\* chunkText not called
CkIdle ==
  /\ ckPc = "idle"
  /\ ckText = << >>
  /\ ckSegments = << >>
  /\ ckFrom = 0
  /\ ckTo = 0
  /\ ckChunks = << >>

VARIABLES
  voPc,   \* validateOptions' position
  voOptions,   \* the options object: [chunkSize, overlap]
  voResult   \* the returned object: [valid, errors, warnings]

vo == <<voPc, voOptions, voResult>>

\* validateOptions not called
VoIdle ==
  /\ voPc = "idle"
  /\ voOptions = [chunkSize |-> 0, overlap |-> 0]
  /\ voResult = [valid |-> TRUE, errors |-> << >>, warnings |-> << >>]

VARIABLES
  trPc,   \* transcribeAudio's position
  trFile,   \* the audio file: [exists, size, parts]
  trCalls,   \* transcription requests made: [file, status]
  trResult,   \* the transcript returned
  trError,   \* the message of the error thrown to the caller
  trStage   \* the stage the caller has written for the recording

tr == <<trPc, trFile, trCalls, trResult, trError, trStage>>

\* transcribeAudio not called
TrIdle ==
  /\ trPc = "idle"
  /\ trFile = [exists |-> FALSE, size |-> 0, parts |-> 0]
  /\ trCalls = << >>
  /\ trResult = [text |-> {}]
  /\ trError = << >>
  /\ trStage = "none"

VARIABLES
  upPc,   \* each upload request's position
  upReq,   \* each upload request: [file, title]
  upReply,   \* each upload request's response status, 0 before it is sent
  upDisk,   \* requests whose file is in uploads/ on the local disk
  upMedia,   \* requests whose file is in media storage
  upRows,   \* requests whose Recording row exists
  upTasks   \* requests whose pipeline task was scheduled

up == <<upPc, upReq, upReply, upDisk, upMedia, upRows, upTasks>>

\* no upload request
UpIdle ==
  /\ upPc = << >>
  /\ upReq = << >>
  /\ upReply = << >>
  /\ upDisk = {}
  /\ upMedia = {}
  /\ upRows = {}
  /\ upTasks = {}

VARIABLES
  qrPc,   \* each chat request's position
  qrStatus,   \* the recording's status: none, processing, ready
  qrRun,   \* the pipeline run's position: idle, init, store, complete
  qrIndex,   \* the index at the vector service: absent, creating, ready
  qrRecords,   \* ids of the VectorRecords in the index
  qrHandle,   \* this.index of the chat route's PineconeService is set
  qrWrites   \* index operations other than queries made by chat requests

qr == <<qrPc, qrStatus, qrRun, qrIndex, qrRecords, qrHandle, qrWrites>>

\* no question asked
QrIdle ==
  /\ qrPc = << >>
  /\ qrStatus = "none"
  /\ qrRun = "idle"
  /\ qrIndex = "absent"
  /\ qrRecords = {}
  /\ qrHandle = FALSE
  /\ qrWrites = << >>

VARIABLES
  dbPc,   \* the run's position, from generateEmbeddings to COMPLETED
  dbChunks,   \* chunks returned by chunkText
  dbWith,   \* chunksWithEmbeddings returned by generateEmbeddings
  dbBatch,   \* the upsert batch storeChunks is at
  dbVectors,   \* the recording's VectorRecords in the index
  dbRows,   \* the recording's text_chunks rows
  dbReport   \* processing.chunks of the last status response

db == <<dbPc, dbChunks, dbWith, dbBatch, dbVectors, dbRows, dbReport>>

\* no run persisting its chunks
DbIdle ==
  /\ dbPc = "idle"
  /\ dbChunks = << >>
  /\ dbWith = << >>
  /\ dbBatch = 0
  /\ dbVectors = {}
  /\ dbRows = {}
  /\ dbReport = << >>

services == <<ix, ck, vo, tr, up, qr, db>>

base == <<store, deleteCalls, pipeline, handlers>>

aux == <<rag, cite, emb, services>>

vars == <<base, aux>>

SvcIdle ==
  /\ IxIdle
  /\ CkIdle
  /\ VoIdle
  /\ TrIdle
  /\ UpIdle
  /\ QrIdle
  /\ DbIdle

ixFrame == <<base, rag, cite, emb, ck, vo, tr, up, qr, db>>

IxOthersIdle ==
  /\ RagIdle /\ CiteIdle /\ EmbIdle
  /\ CkIdle
  /\ VoIdle
  /\ TrIdle
  /\ UpIdle
  /\ QrIdle
  /\ DbIdle

ckFrame == <<base, rag, cite, emb, ix, vo, tr, up, qr, db>>

CkOthersIdle ==
  /\ RagIdle /\ CiteIdle /\ EmbIdle
  /\ IxIdle
  /\ VoIdle
  /\ TrIdle
  /\ UpIdle
  /\ QrIdle
  /\ DbIdle

voFrame == <<base, rag, cite, emb, ix, ck, tr, up, qr, db>>

VoOthersIdle ==
  /\ RagIdle /\ CiteIdle /\ EmbIdle
  /\ IxIdle
  /\ CkIdle
  /\ TrIdle
  /\ UpIdle
  /\ QrIdle
  /\ DbIdle

trFrame == <<base, rag, cite, emb, ix, ck, vo, up, qr, db>>

TrOthersIdle ==
  /\ RagIdle /\ CiteIdle /\ EmbIdle
  /\ IxIdle
  /\ CkIdle
  /\ VoIdle
  /\ UpIdle
  /\ QrIdle
  /\ DbIdle

upFrame == <<base, rag, cite, emb, ix, ck, vo, tr, qr, db>>

UpOthersIdle ==
  /\ RagIdle /\ CiteIdle /\ EmbIdle
  /\ IxIdle
  /\ CkIdle
  /\ VoIdle
  /\ TrIdle
  /\ QrIdle
  /\ DbIdle

qrFrame == <<base, rag, cite, emb, ix, ck, vo, tr, up, db>>

QrOthersIdle ==
  /\ RagIdle /\ CiteIdle /\ EmbIdle
  /\ IxIdle
  /\ CkIdle
  /\ VoIdle
  /\ TrIdle
  /\ UpIdle
  /\ DbIdle

dbFrame == <<base, rag, cite, emb, ix, ck, vo, tr, up, qr>>

DbOthersIdle ==
  /\ RagIdle /\ CiteIdle /\ EmbIdle
  /\ IxIdle
  /\ CkIdle
  /\ VoIdle
  /\ TrIdle
  /\ UpIdle
  /\ QrIdle

\* ------------------------------------------------ end service state

\* the record store, the vector index and the handlers before any request
StoreInit ==
  /\ videos = [v \in Videos |-> NoVideo]
  /\ transcripts = [v \in Videos |-> 0]
  /\ textChunks = [v \in Videos |-> {}]
  /\ exchanges = [v \in Videos |-> 0]
  /\ vectors = [v \in Videos |-> {}]
  /\ deleteCalls = {}
  /\ plPc = [v \in Videos |-> "none"]
  /\ plChunks = [v \in Videos |-> 0]
  /\ plEmbedded = [v \in Videos |-> {}]
  /\ plErr = [v \in Videos |-> Null]
  /\ plWrites = [v \in Videos |-> << >>]
  /\ plWork = [v \in Videos |-> << >>]
  /\ plStored = [v \in Videos |-> {}]
  /\ rp = [h \in RpIds |-> [pc |-> "idle", video |-> "none", read |-> "none",
                           clean |-> TRUE]]
  /\ dl = [v \in Videos |-> "idle"]
  /\ chat = [c \in ChatIds |-> [pc |-> "idle", video |-> "none",
                                read |-> "none"]]

Init == StoreInit /\ RagIdle /\ CiteIdle /\ EmbIdle /\ SvcIdle

\* ----------------------------------------------------------------- upload
\* POST /api/upload with a valid file: storage upload, insert of the row,
\* response, setImmediate. A failed storage upload or insert creates no row.
Upload(v) ==
  /\ plPc[v] = "none"
  /\ ~videos[v].exists
  /\ \E ok \in BOOLEAN :
       IF ok
       THEN /\ videos' = [videos EXCEPT ![v] = UploadInsert]
            /\ plPc' = [plPc EXCEPT ![v] = "download"]
       ELSE /\ plPc' = [plPc EXCEPT ![v] = "rejected"]
            /\ UNCHANGED videos
  /\ UNCHANGED <<transcripts, textChunks, exchanges, vectors, deleteCalls,
                 plChunks, plEmbedded, plErr, plWrites, plWork, plStored,
                 handlers>>
  /\ UNCHANGED aux

\* setImmediate callback: download of the media from storage
Download(v) ==
  /\ plPc[v] = "download"
  /\ \E ok \in BOOLEAN :
       IF ok
       THEN /\ plPc' = [plPc EXCEPT ![v] = "st_extract"]
            /\ UNCHANGED plErr
       ELSE /\ plPc' = [plPc EXCEPT ![v] = "handler"]
            /\ plErr' = [plErr EXCEPT ![v] =
                 <<"Failed to download file for processing", "cause">>]
  /\ UNCHANGED <<store, deleteCalls, plChunks, plEmbedded, plWrites, plWork,
                 plStored, handlers>>
  /\ UNCHANGED aux

\* await this.updateProcessingStatus(videoId, stage, progress): the update
\* may return an error, which is logged and swallowed
UpdateStatus(v) ==
  /\ plPc[v] \in StatusPcs
  /\ LET s == StatusSteps[StepAt(plPc[v])] IN
       /\ \E landed \in BOOLEAN :
            videos' = [videos EXCEPT ![v] =
               IF landed THEN updateProcessingStatus(@, s.stage, s.progress, Null)
               ELSE @]
       /\ plWrites' = [plWrites EXCEPT ![v] =
                         Append(@, [stage |-> s.stage, progress |-> s.progress])]
       /\ plPc' = [plPc EXCEPT ![v] = s.next]
  /\ UNCHANGED <<transcripts, textChunks, exchanges, vectors, deleteCalls,
                 plChunks, plEmbedded, plErr, plWork, plStored, handlers>>
  /\ UNCHANGED aux

\* a stage of the try block throws: control moves to processFile's catch,
\* where the block's constants (chunks, chunksWithEmbeddings) are out of scope
Throw(v, message) ==
  /\ plPc' = [plPc EXCEPT ![v] = "st_failed"]
  /\ plErr' = [plErr EXCEPT ![v] = message]
  /\ plChunks' = [plChunks EXCEPT ![v] = 0]
  /\ plEmbedded' = [plEmbedded EXCEPT ![v] = {}]

\* a stage of the try block returns
Return(v, next) ==
  /\ plPc' = [plPc EXCEPT ![v] = next]
  /\ UNCHANGED plErr

Worked(v, work) == plWork' = [plWork EXCEPT ![v] = Append(@, work)]

\* Step 1: extractAudio
ExtractAudio(v) ==
  /\ plPc[v] = "extract"
  /\ Worked(v, "extract")
  /\ \/ Return(v, "st_transcribe") /\ UNCHANGED <<plChunks, plEmbedded>>
     \/ Throw(v, Wrap("Audio extraction failed", <<"cause">>))
  /\ UNCHANGED <<store, deleteCalls, plWrites, plStored, handlers>>
  /\ UNCHANGED aux

\* Step 2: transcribeAudio
TranscribeAudio(v) ==
  /\ plPc[v] = "transcribe"
  /\ Worked(v, "transcribe")
  /\ \/ Return(v, "st_chunk") /\ UNCHANGED <<plChunks, plEmbedded>>
     \/ Throw(v, Wrap("Transcription failed", <<"cause">>))
  /\ UNCHANGED <<store, deleteCalls, plWrites, plStored, handlers>>
  /\ UNCHANGED aux

\* Step 3: chunkText returns 0..MaxChunks chunks, or throws
ChunkText(v) ==
  /\ plPc[v] = "chunk"
  /\ Worked(v, "chunk")
  /\ \/ /\ \E n \in 0..MaxChunks : plChunks' = [plChunks EXCEPT ![v] = n]
        /\ Return(v, "st_embed")
        /\ UNCHANGED plEmbedded
     \/ Throw(v, Wrap("Text chunking failed", <<"cause">>))
  /\ UNCHANGED <<store, deleteCalls, plWrites, plStored, handlers>>
  /\ UNCHANGED aux

\* Step 4: generateEmbeddings throws on an empty chunk list; otherwise every
\* chunk comes back, with an embedding or with embedding null
GenerateEmbeddings(v) ==
  /\ plPc[v] = "embed"
  /\ Worked(v, "embed")
  /\ IF plChunks[v] = 0
     THEN /\ Throw(v, Wrap("Embedding generation failed",
                      Wrap("Embedding generation failed",
                           <<"No chunks provided for embedding generation">>)))
     ELSE /\ \E e \in SUBSET (1..plChunks[v]) :
               plEmbedded' = [plEmbedded EXCEPT ![v] = e]
          /\ Return(v, "st_store")
          /\ UNCHANGED plChunks
  /\ UNCHANGED <<store, deleteCalls, plWrites, plStored, handlers>>
  /\ UNCHANGED aux

\* Step 5: storeInPinecone. initializeIndex may throw; storeChunks throws when
\* no chunk carries an embedding; a failed upsert batch (retries exhausted)
\* is counted in the result and does not throw. batchSize is 100, so the
\* chunks of a model run are one batch.
StoreInPinecone(v) ==
  /\ plPc[v] = "store"
  /\ Worked(v, "store")
  /\ \/ /\ Throw(v, Wrap("Pinecone storage failed",
                    Wrap("Pinecone initialization failed", <<"cause">>)))
        /\ UNCHANGED <<vectors, plStored>>
     \/ /\ plEmbedded[v] = {}
        /\ Throw(v, Wrap("Pinecone storage failed",
                    Wrap("Pinecone storage failed",
                         <<"No valid chunks with embeddings to store">>)))
        /\ UNCHANGED <<vectors, plStored>>
     \/ /\ plEmbedded[v] # {}
        /\ \E upserted \in BOOLEAN :
             /\ vectors' = [vectors EXCEPT ![v] =
                              IF upserted THEN @ \cup plEmbedded[v] ELSE @]
             /\ plStored' = [plStored EXCEPT ![v] =
                              IF upserted THEN plEmbedded[v] ELSE @]
        /\ Return(v, "save_transcript")
        /\ UNCHANGED <<plChunks, plEmbedded>>
  /\ UNCHANGED <<videos, transcripts, textChunks, exchanges, deleteCalls,
                 plWrites, handlers>>
  /\ UNCHANGED aux

InsertFailed_Ignored(ok) == "continue"

\* saveToDatabase: `if (transcriptError) throw`, `if (chunksError) throw`
InsertFailed(ok) == IF ok THEN "continue" ELSE "throw"

\* Step 6, saveToDatabase, first insert: the transcripts row. The store
\* returns an error whenever the videos row is gone (video_id references
\* videos(id)), and may return one at any time.
SaveTranscript(v) ==
  /\ plPc[v] = "save_transcript"
  /\ Worked(v, "save_transcript")
  /\ \E ok \in BOOLEAN :
       /\ ok => videos[v].exists
       /\ transcripts' = [transcripts EXCEPT ![v] = IF ok THEN @ + 1 ELSE @]
       /\ IF InsertFailed(ok) = "throw"
          THEN Throw(v, Wrap("Database save failed",
                        Wrap("Transcript save failed", <<"cause">>)))
          ELSE Return(v, "save_chunks") /\ UNCHANGED <<plChunks, plEmbedded>>
  /\ UNCHANGED <<videos, textChunks, exchanges, vectors, deleteCalls,
                 plWrites, plStored, handlers>>
  /\ UNCHANGED aux

\* Step 6, second insert: one text_chunks row per chunk of `chunks`
\* (transcript_id references transcripts(id))
SaveChunks(v) ==
  /\ plPc[v] = "save_chunks"
  /\ Worked(v, "save_chunks")
  /\ \E ok \in BOOLEAN :
       /\ ok => (videos[v].exists /\ transcripts[v] > 0)
       /\ textChunks' = [textChunks EXCEPT ![v] =
                           IF ok THEN @ \cup (1..plChunks[v]) ELSE @]
       /\ IF InsertFailed(ok) = "throw"
          THEN Throw(v, Wrap("Database save failed",
                        Wrap("Chunks save failed", <<"cause">>)))
          ELSE Return(v, "st_completed") /\ UNCHANGED <<plChunks, plEmbedded>>
  /\ UNCHANGED <<videos, transcripts, exchanges, vectors, deleteCalls,
                 plWrites, plStored, handlers>>
  /\ UNCHANGED aux

\* cleanup after the COMPLETED write, then return to the callback, which
\* unlinks the temp file; processFile's constants go out of scope
Cleanup(v) ==
  /\ plPc[v] = "cleanup"
  /\ IF CleanupPropagates
     THEN Throw(v, <<"cleanup">>)
     ELSE /\ Return(v, "done")
          /\ plChunks' = [plChunks EXCEPT ![v] = 0]
          /\ plEmbedded' = [plEmbedded EXCEPT ![v] = {}]
  /\ UNCHANGED <<store, deleteCalls, plWrites, plWork, plStored, handlers>>
  /\ UNCHANGED aux

\* processFile's catch: updateProcessingStatus(FAILED, 0, error.message),
\* cleanup, throw new Error(`Processing failed: ${error.message}`)
FailedStatus(v) ==
  /\ plPc[v] = "st_failed"
  /\ \E landed \in BOOLEAN :
       videos' = [videos EXCEPT ![v] =
          IF landed
          THEN updateProcessingStatus(@, processingStages.FAILED, 0, plErr[v])
          ELSE @]
  /\ plWrites' = [plWrites EXCEPT ![v] =
                    Append(@, [stage |-> processingStages.FAILED, progress |-> 0])]
  /\ plErr' = [plErr EXCEPT ![v] = Wrap("Processing failed", @)]
  /\ plPc' = [plPc EXCEPT ![v] = "handler"]
  /\ UNCHANGED <<transcripts, textChunks, exchanges, vectors, deleteCalls,
                 plChunks, plEmbedded, plWork, plStored, handlers>>
  /\ UNCHANGED aux

\* the setImmediate callback's catch: update of the row (its result is not
\* looked at), removal of the media from storage
FailureHandler(v) ==
  /\ plPc[v] = "handler"
  /\ \E landed \in BOOLEAN :
       videos' = [videos EXCEPT ![v] =
          IF landed THEN HandlerFailUpdate(@, plErr[v]) ELSE @]
  /\ plPc' = [plPc EXCEPT ![v] = "done"]
  /\ UNCHANGED <<transcripts, textChunks, exchanges, vectors, deleteCalls,
                 plChunks, plEmbedded, plErr, plWrites, plWork, plStored,
                 handlers>>
  /\ UNCHANGED aux

\* ------------------------------------------------------- reprocess route
\* POST /api/processing/reprocess/:videoId: what the select returns
\* ("no rows" is PGRST116, answered with 404)
ReprocessRead(row) == IF ~row.exists THEN "not_found" ELSE row.status

ReprocessAccepts_NoGuard(read) == read # "not_found"

\* `if (videoData.status === 'processing') return res.status(400)`
ReprocessAccepts(read) == read # "not_found" /\ read # "processing"

\* (requests are numbered in the order of their first step)
\* A store error other than "no rows" is thrown and answered with 500.
ReprocessCheck(h, v) ==
  /\ rp[h].pc = "idle"
  /\ \A g \in RpIds : g < h => rp[g].pc # "idle"
  /\ \/ rp' = [rp EXCEPT ![h] = [pc |-> "done", video |-> v, read |-> "error",
                                 clean |-> TRUE]]
     \/ LET read == ReprocessRead(videos[v]) IN
          rp' = [rp EXCEPT ![h] =
                   [pc |-> IF ReprocessAccepts(read) THEN "del_vectors" ELSE "done",
                    video |-> v, read |-> read, clean |-> TRUE]]
  /\ UNCHANGED <<store, deleteCalls, pipeline, dl, chat>>
  /\ UNCHANGED aux

\* rp[h].clean: every call of the request so far returned without error
Called(h, next, ok) ==
  rp' = [rp EXCEPT ![h].pc = next, ![h].clean = @ /\ ok]

\* deleteVideoVectors inside try/catch: a failure is only logged
ReprocessDeleteVectors(h) ==
  /\ rp[h].pc = "del_vectors"
  /\ \E ok \in BOOLEAN :
       /\ vectors' = [vectors EXCEPT ![rp[h].video] = IF ok THEN {} ELSE @]
       /\ Called(h, "del_chats", ok)
  /\ deleteCalls' = deleteCalls \cup {[by |-> "reprocess", video |-> rp[h].video]}
  /\ UNCHANGED <<videos, transcripts, textChunks, exchanges, pipeline, dl, chat>>
  /\ UNCHANGED aux

\* the three deletes; their results are not looked at
ReprocessDeleteChats(h) ==
  /\ rp[h].pc = "del_chats"
  /\ \E ok \in BOOLEAN :
       /\ exchanges' = [exchanges EXCEPT ![rp[h].video] = IF ok THEN 0 ELSE @]
       /\ Called(h, "del_chunks", ok)
  /\ UNCHANGED <<videos, transcripts, textChunks, vectors, deleteCalls,
                 pipeline, dl, chat>>
  /\ UNCHANGED aux

ReprocessDeleteChunks(h) ==
  /\ rp[h].pc = "del_chunks"
  /\ \E ok \in BOOLEAN :
       /\ textChunks' = [textChunks EXCEPT ![rp[h].video] = IF ok THEN {} ELSE @]
       /\ Called(h, "del_transcripts", ok)
  /\ UNCHANGED <<videos, transcripts, exchanges, vectors, deleteCalls,
                 pipeline, dl, chat>>
  /\ UNCHANGED aux

\* text_chunks.transcript_id references transcripts(id) ON DELETE CASCADE
ReprocessDeleteTranscripts(h) ==
  /\ rp[h].pc = "del_transcripts"
  /\ \E ok \in BOOLEAN :
       /\ transcripts' = [transcripts EXCEPT ![rp[h].video] = IF ok THEN 0 ELSE @]
       /\ textChunks' = [textChunks EXCEPT ![rp[h].video] = IF ok THEN {} ELSE @]
       /\ Called(h, "reset", ok)
  /\ UNCHANGED <<videos, exchanges, vectors, deleteCalls, pipeline, dl, chat>>
  /\ UNCHANGED aux

\* the status reset, then the response; no pipeline task is started
ReprocessResetStatus(h) ==
  /\ rp[h].pc = "reset"
  /\ \E landed \in BOOLEAN :
       /\ videos' = [videos EXCEPT ![rp[h].video] =
                       IF landed THEN ReprocessReset(@) ELSE @]
       /\ Called(h, "done", landed)
  /\ UNCHANGED <<transcripts, textChunks, exchanges, vectors, deleteCalls,
                 pipeline, dl, chat>>
  /\ UNCHANGED aux

\* ---------------------------------------------------------- delete route
\* DELETE /api/upload/:videoId: vectors first (failure only logged) ...
DeleteVectors(v) ==
  /\ dl[v] = "idle"
  /\ \E ok \in BOOLEAN :
       vectors' = [vectors EXCEPT ![v] = IF ok THEN {} ELSE @]
  /\ deleteCalls' = deleteCalls \cup {[by |-> "delete", video |-> v]}
  /\ dl' = [dl EXCEPT ![v] = "row"]
  /\ UNCHANGED <<videos, transcripts, textChunks, exchanges, pipeline, rp, chat>>
  /\ UNCHANGED aux

\* ... then the videos row; transcripts, text_chunks and chat_conversations
\* cascade. A store error is answered with 500.
DeleteRow(v) ==
  /\ dl[v] = "row"
  /\ \E ok \in BOOLEAN :
       IF ok
       THEN /\ videos' = [videos EXCEPT ![v] = NoVideo]
            /\ transcripts' = [transcripts EXCEPT ![v] = 0]
            /\ textChunks' = [textChunks EXCEPT ![v] = {}]
            /\ exchanges' = [exchanges EXCEPT ![v] = 0]
       ELSE UNCHANGED <<videos, transcripts, textChunks, exchanges>>
  /\ dl' = [dl EXCEPT ![v] = "done"]
  /\ UNCHANGED <<vectors, deleteCalls, pipeline, rp, chat>>
  /\ UNCHANGED aux

\* ------------------------------------------------------------ chat route
ChatRead_Ready(row) == "ready"

\* the select of the row: PGRST116 (no row) or the row's status
ChatRead(row) == IF ~row.exists THEN "not_found" ELSE row.status

ChatAccepts_Always(status) == TRUE

\* if (videoData.status !== 'ready') return res.status(400)
ChatAccepts(status) == status = "ready"

\* POST /api/chat: the select of the row and the status guard
ChatCheck(c, v) ==
  /\ chat[c].pc = "idle"
  /\ \A d \in ChatIds : d < c => chat[d].pc # "idle"
  /\ LET read == ChatRead(videos[v]) IN
       chat' = [chat EXCEPT ![c] =
         [pc |-> IF ChatAccepts(read) THEN "answer" ELSE "done",
          video |-> v, read |-> read]]
  /\ UNCHANGED <<store, deleteCalls, pipeline, rp, dl>>
  /\ UNCHANGED aux

\* generateRAGResponse, then saveConversation's insert (chat_conversations
\* .video_id references videos(id)); an error is thrown and answered with 500
ChatSave(c) ==
  /\ chat[c].pc = "answer"
  /\ \/ /\ videos[chat[c].video].exists
        /\ exchanges' = [exchanges EXCEPT ![chat[c].video] = @ + 1]
     \/ UNCHANGED exchanges
  /\ chat' = [chat EXCEPT ![c].pc = "done"]
  /\ UNCHANGED <<videos, transcripts, textChunks, vectors, deleteCalls,
                 pipeline, rp, dl>>
  /\ UNCHANGED aux

Next ==
  \/ \E v \in Videos :
       \/ Upload(v)
       \/ Download(v)
       \/ UpdateStatus(v)
       \/ ExtractAudio(v)
       \/ TranscribeAudio(v)
       \/ ChunkText(v)
       \/ GenerateEmbeddings(v)
       \/ StoreInPinecone(v)
       \/ SaveTranscript(v)
       \/ SaveChunks(v)
       \/ Cleanup(v)
       \/ FailedStatus(v)
       \/ FailureHandler(v)
       \/ DeleteVectors(v)
       \/ DeleteRow(v)
       \/ \E h \in RpIds : ReprocessCheck(h, v)
       \/ \E c \in ChatIds : ChatCheck(c, v)
  \/ \E h \in RpIds :
       \/ ReprocessDeleteVectors(h)
       \/ ReprocessDeleteChats(h)
       \/ ReprocessDeleteChunks(h)
       \/ ReprocessDeleteTranscripts(h)
       \/ ReprocessResetStatus(h)
  \/ \E c \in ChatIds : ChatSave(c)

Spec == Init /\ [][Next]_vars

\* Tasks that have started run to their end (the event loop resumes every
\* await whose call returns); when requests arrive is up to the clients.
Fairness ==
  /\ \A v \in Videos :
       /\ WF_vars(Download(v))
       /\ WF_vars(UpdateStatus(v))
       /\ WF_vars(ExtractAudio(v))
       /\ WF_vars(TranscribeAudio(v))
       /\ WF_vars(ChunkText(v))
       /\ WF_vars(GenerateEmbeddings(v))
       /\ WF_vars(StoreInPinecone(v))
       /\ WF_vars(SaveTranscript(v))
       /\ WF_vars(SaveChunks(v))
       /\ WF_vars(Cleanup(v))
       /\ WF_vars(FailedStatus(v))
       /\ WF_vars(FailureHandler(v))
       /\ WF_vars(DeleteRow(v))
  /\ \A h \in RpIds :
       /\ WF_vars(ReprocessDeleteVectors(h))
       /\ WF_vars(ReprocessDeleteChats(h))
       /\ WF_vars(ReprocessDeleteChunks(h))
       /\ WF_vars(ReprocessDeleteTranscripts(h))
       /\ WF_vars(ReprocessResetStatus(h))
  /\ \A c \in ChatIds : WF_vars(ChatSave(c))

FairSpec == Spec /\ Fairness

\* ====================================================== retrieval engine
\* generateRAGResponse (routes/chat.js) over PineconeService.searchSimilar.
\* Scores are in tenths: 3 is the source's 0.3.
MaxVectors == 6       \* vector records in the index

PrimaryTopK == 5
PrimaryMinScore == 3
FallbackTopK == 3
FallbackMinScore == 1

RagVideo == "v1"      \* videoId of the question
\* (videoId, score) a record of the index may have for the question
VectorKinds == {<<"v1", 0>>, <<"v1", 2>>, <<"v1", 5>>, <<"v1", 7>>,
                <<"v2", 9>>}

\* storeChunks' record for chunk i of a recording, scored for the question:
\* chunk i spans the i-th minute of the recording
VectorRecord(i, kind) ==
  [id |-> i, score |-> kind[2], values |-> << >>,
   metadata |-> [videoId |-> kind[1], chunkIndex |-> i, text |-> i,
                 startTime |-> 60 * (i - 1), endTime |-> 60 * i]]

Indexes ==
  {{VectorRecord(i, f[i]) : i \in 1..MaxVectors} :
     f \in [1..MaxVectors -> VectorKinds]}

\* the index's query: the topK best scored records that pass the filter,
\* best first (the service's contract for query)
RECURSIVE Ranked(_)
Ranked(S) ==
  IF S = {} THEN << >>
  ELSE LET best == CHOOSE r \in S :
                     \A q \in S : \/ r.score > q.score
                                  \/ r.score = q.score /\ r.id <= q.id
       IN <<best>> \o Ranked(S \ {best})

NoFilter == "none"    \* query without a metadata filter

IndexQuery(index, query) ==
  LET hits == Ranked({r \in index :
                 \/ query.filter = NoFilter
                 \/ r.metadata.videoId = query.filter})
  IN SubSeq(hits, 1, IF Len(hits) < query.topK THEN Len(hits) ELSE query.topK)

PassesMinScore_Always(match, minScore) == TRUE

\* searchSimilar's filter: match.score >= minScore
PassesMinScore(match, minScore) == match.score >= minScore

\* searchSimilar(queryEmbedding, options) when the query call returns
searchSimilar(index, options) ==
  LET query == [topK |-> options.topK,
                filter |-> IF options.videoId # "null"
                           THEN options.videoId ELSE NoFilter]
      Kept(match) == PassesMinScore(match, options.minScore)
      filtered == SelectSeq(IndexQuery(index, query), Kept)
  IN [i \in 1..Len(filtered) |->
        [id |-> filtered[i].id, score |-> filtered[i].score,
         metadata |-> filtered[i].metadata]]

PrimaryOptions ==
  [videoId |-> RagVideo, topK |-> PrimaryTopK, minScore |-> PrimaryMinScore]
FallbackOptions ==
  [videoId |-> RagVideo, topK |-> FallbackTopK, minScore |-> FallbackMinScore]

\* --------------------------------------------------- citation extraction
\* A time token of the answer, as timestampRegex captures it, is the
\* sequence of its numeric fields: [05:30] is <<5, 30>>, [01:05:30] is
\* <<1, 5, 30>>. A formatted time is written the same way.
DedupWindow == 5
DefaultDuration == 30

\* formatTime(seconds)
formatTime(seconds) ==
  IF seconds = 0 \/ seconds < 0 THEN <<0, 0>>
  ELSE LET hours == seconds \div 3600
           minutes == (seconds % 3600) \div 60
           secs == seconds % 60
       IN IF hours > 0 THEN <<hours, minutes, secs>> ELSE <<minutes, secs>>

parseTimeString_HoursAsMinutes(parts) ==
  IF Len(parts) = 2 THEN parts[1] * 60 + parts[2]
  ELSE IF Len(parts) = 3 THEN parts[1] * 60 + parts[2] * 60 + parts[3]
  ELSE 0

\* parseTimeString(timeString)
parseTimeString(parts) ==
  IF Len(parts) = 2 THEN parts[1] * 60 + parts[2]
  ELSE IF Len(parts) = 3 THEN parts[1] * 3600 + parts[2] * 60 + parts[3]
  ELSE 0

\* x || d on numbers
OrElse(x, d) == IF x = 0 THEN d ELSE x

Abs(x) == IF x < 0 THEN 0 - x ELSE x

\* the subsequence of seq at the indexes in I, from index i on
RECURSIVE Pick(_, _, _)
Pick(seq, I, i) ==
  IF i > Len(seq) THEN << >>
  ELSE (IF i \in I THEN <<seq[i]>> ELSE << >>) \o Pick(seq, I, i + 1)

\* seconds >= chunk.startTime && seconds <= chunk.endTime
Contains(chunk, seconds) ==
  seconds >= chunk.startTime /\ seconds <= chunk.endTime

\* context.find(...): index of the first chunk containing seconds, 0 if none
FindChunk(context, seconds) ==
  IF \E k \in 1..Len(context) : Contains(context[k], seconds)
  THEN CHOOSE k \in 1..Len(context) :
         /\ Contains(context[k], seconds)
         /\ \A j \in 1..(k - 1) : ~Contains(context[j], seconds)
  ELSE 0

\* the while loop over the tokens of the response
TokenTimestamps(response, context) ==
  LET Found(token) == FindChunk(context, parseTimeString(token)) # 0
      found == SelectSeq(response, Found)
  IN [i \in 1..Len(found) |->
        LET seconds == parseTimeString(found[i])
            contextChunk == context[FindChunk(context, seconds)]
        IN [time |-> seconds, timeString |-> found[i],
            text |-> contextChunk.text,
            startTime |-> contextChunk.startTime,
            endTime |-> contextChunk.endTime]]

UsesContext_Never(timestamps, context) == FALSE

\* timestamps.length === 0 && context.length > 0
UsesContext(timestamps, context) ==
  Len(timestamps) = 0 /\ Len(context) > 0

ChunkReference_End(chunk) == chunk.endTime

\* const startTime = chunk.startTime || 0
ChunkReference(chunk) == OrElse(chunk.startTime, 0)

\* context.forEach(...): one timestamp per chunk with startTime >= 0
ContextTimestamps(context) ==
  LET Valid(chunk) == ChunkReference(chunk) >= 0
      valid == SelectSeq(context, Valid)
  IN [i \in 1..Len(valid) |->
        LET startTime == ChunkReference(valid[i])
            endTime == OrElse(valid[i].endTime, startTime + DefaultDuration)
        IN [time |-> startTime, timeString |-> formatTime(startTime),
            text |-> valid[i].text,
            startTime |-> startTime, endTime |-> endTime]]

Collapses_SameTime(a, b) == a.time = b.time

\* Math.abs(t.time - timestamp.time) < 5
Collapses(a, b) == Abs(a.time - b.time) < DedupWindow

\* timestamps.filter((timestamp, index, self) => index === self.findIndex(..))
UniqueTimestamps(timestamps) ==
  Pick(timestamps,
       {i \in 1..Len(timestamps) :
          \A j \in 1..(i - 1) : ~Collapses(timestamps[j], timestamps[i])},
       1)

\* extractTimestamps(response, context)
extractTimestamps(response, context) ==
  LET fromTokens == TokenTimestamps(response, context)
      timestamps == IF UsesContext(fromTokens, context)
                    THEN ContextTimestamps(context)
                    ELSE fromTokens
  IN UniqueTimestamps(timestamps)

\* ------------------------------------------------- generateRAGResponse
\* time tokens generateAIResponse may put in its answer
Tokens == {<<0, 0>>, <<5, 30>>, <<5, 32>>, <<0, 5, 36>>, <<1, 0, 0>>}
RagAnswers == {<< >>, <<<<5, 30>>>>, <<<<1, 0, 0>>>>}

\* the fixed answer returned when nothing was found
NotFoundAnswer ==
  [text |-> "not_found", timestamps |-> << >>, sources |-> << >>]

\* Step 3: the context chunks prepared from the search results
BuildContext(searchResults) ==
  [i \in 1..Len(searchResults) |->
     [index |-> i, text |-> searchResults[i].metadata.text,
      startTime |-> OrElse(searchResults[i].metadata.startTime, 0),
      endTime |-> OrElse(searchResults[i].metadata.endTime, 0),
      score |-> searchResults[i].score]]

\* the sources of the returned object
Sources(context) ==
  [i \in 1..Len(context) |->
     [text |-> context[i].text, startTime |-> context[i].startTime,
      endTime |-> context[i].endTime, score |-> context[i].score]]

NoMatches_Never(searchResults) == FALSE

\* if (searchResults.length === 0)
NoMatches(searchResults) == Len(searchResults) = 0

NothingFound_Never(fallbackResults) == FALSE

\* if (fallbackResults.length === 0)
NothingFound(fallbackResults) == Len(fallbackResults) = 0

\* a step throws: the catch of generateRAGResponse wraps the step's error
RagThrows(prefix) ==
  /\ ragPc' = "failed"
  /\ ragError' = Wrap("RAG response generation failed",
                      Wrap(prefix, <<"cause">>))

\* Step 1: generateQueryEmbedding; a throw leaves through the catch
RagEmbedQuery ==
  /\ ragPc = "embed"
  /\ \E ok \in BOOLEAN :
       IF ok THEN ragPc' = "primary" /\ UNCHANGED ragError
       ELSE RagThrows("Query embedding failed")
  /\ UNCHANGED <<ragIndex, ragCalls, ragContext, ragGenerated, ragResult,
                 ragReply>>
  /\ UNCHANGED <<base, cite, emb, services>>

\* Step 2: searchSimilar with topK 5 and minScore 0.3
RagPrimarySearch ==
  /\ ragPc = "primary"
  /\ \E ok \in BOOLEAN :
       IF ok
       THEN LET searchResults == searchSimilar(ragIndex, PrimaryOptions) IN
              /\ ragCalls' = Append(ragCalls,
                   [options |-> PrimaryOptions, ok |-> TRUE,
                    results |-> searchResults])
              /\ ragContext' = searchResults
              /\ ragPc' = IF NoMatches(searchResults) THEN "fallback"
                          ELSE "generate"
              /\ UNCHANGED ragError
       ELSE /\ ragCalls' = Append(ragCalls,
                   [options |-> PrimaryOptions, ok |-> FALSE,
                    results |-> << >>])
            /\ RagThrows("Pinecone search failed")
            /\ UNCHANGED ragContext
  /\ UNCHANGED <<ragIndex, ragGenerated, ragResult, ragReply>>
  /\ UNCHANGED <<base, cite, emb, services>>

\* searchResults.length === 0: searchSimilar with topK 3 and minScore 0.1
RagFallbackSearch ==
  /\ ragPc = "fallback"
  /\ \E ok \in BOOLEAN :
       IF ok
       THEN LET fallbackResults == searchSimilar(ragIndex, FallbackOptions) IN
              /\ ragCalls' = Append(ragCalls,
                   [options |-> FallbackOptions, ok |-> TRUE,
                    results |-> fallbackResults])
              /\ UNCHANGED ragError
              /\ IF NothingFound(fallbackResults)
                 THEN /\ ragResult' = NotFoundAnswer
                      /\ ragPc' = "done"
                      /\ UNCHANGED ragContext
                 ELSE /\ ragContext' = ragContext \o fallbackResults
                      /\ ragPc' = "generate"
                      /\ UNCHANGED ragResult
       ELSE /\ ragCalls' = Append(ragCalls,
                   [options |-> FallbackOptions, ok |-> FALSE,
                    results |-> << >>])
            /\ RagThrows("Pinecone search failed")
            /\ UNCHANGED <<ragContext, ragResult>>
  /\ UNCHANGED <<ragIndex, ragGenerated, ragReply>>
  /\ UNCHANGED <<base, cite, emb, services>>

\* Steps 3-5: context, generateAIResponse, extractTimestamps, return
RagGenerate ==
  /\ ragPc = "generate"
  /\ ragGenerated' = ragGenerated + 1
  /\ LET context == BuildContext(ragContext) IN
       \/ \E aiResponse \in RagAnswers :
            /\ ragResult' = [text |-> aiResponse,
                             timestamps |-> extractTimestamps(aiResponse,
                                                              context),
                             sources |-> Sources(context)]
            /\ ragPc' = "done"
            /\ UNCHANGED ragError
       \/ /\ RagThrows("AI response generation failed")
          /\ UNCHANGED ragResult
  /\ UNCHANGED <<ragIndex, ragCalls, ragContext, ragReply>>
  /\ UNCHANGED <<base, cite, emb, services>>

\* POST /api/chat after generateRAGResponse: saveConversation and res.json,
\* or the catch block's res.status(500) with error.message
ChatRespond ==
  /\ ragPc \in {"done", "failed"}
  /\ ragPc' = "replied"
  /\ IF ragPc = "failed"
     THEN ragReply' = [status |-> 500, success |-> FALSE,
                       response |-> << >>, error |-> ragError]
     ELSE \/ ragReply' = [status |-> 200, success |-> TRUE,
                          response |-> ragResult.text, error |-> << >>]
          \/ ragReply' = [status |-> 500, success |-> FALSE,
                          response |-> << >>,
                          error |-> Wrap("Conversation save failed",
                                         <<"cause">>)]
  /\ UNCHANGED <<ragIndex, ragCalls, ragContext, ragGenerated, ragResult,
                 ragError>>
  /\ UNCHANGED <<base, cite, emb, services>>

RagInit ==
  /\ StoreInit /\ CiteIdle /\ EmbIdle /\ SvcIdle
  /\ ragPc = "embed"
  /\ ragIndex \in Indexes
  /\ ragCalls = << >>
  /\ ragContext = << >>
  /\ ragGenerated = 0
  /\ ragResult = Null
  /\ ragError = << >>
  /\ ragReply = NoReply

RagNext ==
  \/ RagEmbedQuery
  \/ RagPrimarySearch
  \/ RagFallbackSearch
  \/ RagGenerate
  \/ ChatRespond

RagSpec == RagInit /\ [][RagNext]_vars

\* ------------------------------------------ extractTimestamps, on its own
MaxTokens == 3        \* time tokens in one answer
MaxContext == 2       \* context chunks handed to extractTimestamps

\* [startTime, endTime] of a context chunk: <<0, 0>> is a chunk of a
\* transcript without segments (mapChunkToTimestamps), the others are
\* segment times, of chunks that overlap or follow each other
Intervals == {<<0, 0>>, <<0, 60>>, <<300, 360>>, <<302, 331>>, <<360, 420>>}

RECURSIVE SeqsUpTo(_, _)
SeqsUpTo(S, n) ==
  IF n = 0 THEN {<< >>}
  ELSE LET shorter == SeqsUpTo(S, n - 1)
       IN shorter \cup {Append(q, x) : q \in shorter, x \in S}

Responses == SeqsUpTo(Tokens, MaxTokens)

Contexts ==
  {[i \in 1..Len(q) |->
      [index |-> i, text |-> i, startTime |-> q[i][1], endTime |-> q[i][2],
       score |-> PrimaryMinScore]] : q \in SeqsUpTo(Intervals, MaxContext)}

CiteExtract ==
  /\ citePc = "call"
  /\ citeResult' = extractTimestamps(citeResponse, citeContext)
  /\ citePc' = "returned"
  /\ UNCHANGED <<citeResponse, citeContext>>
  /\ UNCHANGED <<base, rag, emb, services>>

CiteInit ==
  /\ StoreInit /\ RagIdle /\ EmbIdle /\ SvcIdle
  /\ citePc = "call"
  /\ citeResponse \in Responses
  /\ citeContext \in Contexts
  /\ citeResult = << >>

CiteNext == CiteExtract

CiteSpec == CiteInit /\ [][CiteNext]_vars

\* ============================================ embedding and vector upsert
\* EmbeddingService.generateEmbeddings followed by PineconeService
\* .storeChunks, as steps 4 and 5 of processFile call them. One step per
\* attempt of an external call.
MaxEmbChunks == 4     \* chunks handed to generateEmbeddings
BatchSize == 2        \* this.batchSize of both services (100), scaled down

embMaxRetries == 3    \* EmbeddingService.maxRetries
embRetryDelay == 1000 \* EmbeddingService.retryDelay
pcMaxRetries == 3     \* PineconeService.maxRetries
pcRetryDelay == 1000  \* PineconeService.retryDelay

\* texts chunk n may carry: words, or white space only
Blank == <<" ">>
ChunkTexts(n) == {<<"words", n>>, Blank}

\* chunk lists of the chunker: chunk.index is the position, from 0
EmbInputs ==
  UNION {{[i \in 1..n |-> [index |-> i - 1, text |-> t[i]]] :
            t \in {f \in [1..n -> UNION {ChunkTexts(k) : k \in 0..n}] :
                     \A i \in 1..n : f[i] \in ChunkTexts(i - 1)}} :
         n \in 0..MaxEmbChunks}

\* text.trim()
Trim(text) == IF text = Blank THEN << >> ELSE text

IsValidChunk_Any(chunk) == TRUE

\* validateChunks' filter: text present and not empty after trim
IsValidChunk(chunk) == chunk.text # << >> /\ Trim(chunk.text) # << >>

\* validateChunks(chunks)
validateChunks(chunks) == SelectSeq(chunks, IsValidChunk)

\* prepareTextForEmbedding(text)
prepareTextForEmbedding(text) == Trim(text)

\* createBatches(items, batchSize)
createBatches(items, batchSize) ==
  [b \in 1..((Len(items) + batchSize - 1) \div batchSize) |->
     SubSeq(items, (b - 1) * batchSize + 1,
            IF b * batchSize < Len(items) THEN b * batchSize ELSE Len(items))]

CanRetry_Inclusive(retryCount, maxRetries) == retryCount <= maxRetries

\* if (retryCount < this.maxRetries)
CanRetry(retryCount, maxRetries) == retryCount < maxRetries

Backoff_Linear(retryDelay, retryCount) == retryDelay * (retryCount + 1)

\* this.retryDelay * Math.pow(2, retryCount)
Backoff(retryDelay, retryCount) == retryDelay * 2 ^ retryCount

\* embeddings.create: one embedding per input text, in input order
EmbeddingResponse(texts) ==
  [data |-> [i \in 1..Len(texts) |-> [embedding |-> <<"vector", texts[i]>>]]]

WithEmbedding_Dropped(chunk, datum) ==
  [index |-> chunk.index, text |-> chunk.text, embedding |-> Null,
   embeddingError |-> Null]

\* { ...chunk, embedding: response.data[index].embedding, ... }
WithEmbedding(chunk, datum) ==
  [index |-> chunk.index, text |-> chunk.text,
   embedding |-> datum.embedding, embeddingError |-> Null]

\* { ...chunk, embedding: null, embeddingError: error.message, ... }
WithoutEmbedding(chunk) ==
  [index |-> chunk.index, text |-> chunk.text, embedding |-> Null,
   embeddingError |-> <<"message">>]

\* processBatch: the chunks of the batch combined with the response
processBatch(batch, response) ==
  [i \in 1..Len(batch) |-> WithEmbedding(batch[i], response.data[i])]

\* the batches of generateEmbeddings
EmbBatches == createBatches(validateChunks(embChunks), BatchSize)

\* storeChunks: chunks with a valid embedding, and their batches
HasEmbedding(chunk) == chunk.embedding # Null /\ Len(chunk.embedding) > 0
UpsertBatches ==
  createBatches(SelectSeq(embResults, HasEmbedding), BatchSize)

Texts(batch) == [i \in 1..Len(batch) |-> prepareTextForEmbedding(batch[i].text)]

\* await this.delay(500) between batches, await this.delay(200) after an
\* embedded item
embBatchDelay == 500
embItemDelay == 200
pcBatchDelay == 500

\* if (i < batches.length - 1) await this.delay(500), in the try block only
PauseAfterBatch(batches, batchDelay) ==
  IF embBatch < Len(batches) THEN batchDelay ELSE 0

\* the call returned or threw for good; pause is the delay awaited next
CallDone(svc, mode, input, ok, pause) ==
  /\ embCalls' = Append(embCalls,
       [svc |-> svc, mode |-> mode, batch |-> embBatch, input |-> input,
        delays |-> embDelays, ok |-> ok, pause |-> pause])
  /\ embRetry' = 0
  /\ embDelays' = << >>

\* the call failed and is retried after the backoff delay
CallRetried(retryDelay) ==
  /\ embDelays' = Append(embDelays, Backoff(retryDelay, embRetry))
  /\ embRetry' = embRetry + 1
  /\ UNCHANGED embCalls

\* the for loop of generateEmbeddings moves to the next batch, or returns
NextBatch ==
  IF embBatch < Len(EmbBatches)
  THEN embBatch' = embBatch + 1 /\ embPc' = "batch_call"
  ELSE embBatch' = 0 /\ embPc' = "store_start"

\* generateEmbeddings: the guard on the chunk list, validateChunks and
\* createBatches
EmbStart ==
  /\ embPc = "start"
  /\ IF Len(embChunks) = 0
     THEN embPc' = "embed_failed" /\ UNCHANGED embBatch
     ELSE IF Len(EmbBatches) = 0
          THEN embPc' = "store_start" /\ UNCHANGED embBatch
          ELSE embPc' = "batch_call" /\ embBatch' = 1
  /\ UNCHANGED <<embChunks, embItem, embRetry, embDelays, embCalls,
                 embResults, upResults>>
  /\ UNCHANGED <<base, rag, cite, services>>

\* processBatch: one attempt of callEmbeddingAPI on the batch's texts
EmbBatchAttempt ==
  /\ embPc = "batch_call"
  /\ LET batch == EmbBatches[embBatch] IN
       \/ /\ CallDone("embedding", "batch", Texts(batch), TRUE,
                      PauseAfterBatch(EmbBatches, embBatchDelay))
          /\ embResults' =
               embResults \o processBatch(batch, EmbeddingResponse(Texts(batch)))
          /\ NextBatch
          /\ UNCHANGED embItem
       \/ /\ CanRetry(embRetry, embMaxRetries)
          /\ CallRetried(embRetryDelay)
          /\ UNCHANGED <<embPc, embBatch, embItem, embResults>>
       \/ /\ ~CanRetry(embRetry, embMaxRetries)
          /\ CallDone("embedding", "batch", Texts(batch), FALSE, 0)
          /\ embPc' = "item_call"
          /\ embItem' = 1
          /\ UNCHANGED <<embBatch, embResults>>
  /\ UNCHANGED <<embChunks, upResults>>
  /\ UNCHANGED <<base, rag, cite, services>>

\* the for loop of processIndividually moves on, or returns to the batches
NextItem_Abandon ==
  embItem' = 0 /\ NextBatch

\* processIndividually's loop: the next chunk of the batch, or the next batch
NextItem ==
  IF embItem < Len(EmbBatches[embBatch])
  THEN embItem' = embItem + 1 /\ UNCHANGED <<embPc, embBatch>>
  ELSE embItem' = 0 /\ NextBatch

\* processIndividually: one attempt of callEmbeddingAPI on one chunk's text
EmbItemAttempt ==
  /\ embPc = "item_call"
  /\ LET chunk == EmbBatches[embBatch][embItem]
         texts == <<prepareTextForEmbedding(chunk.text)>>
     IN
       \/ /\ CallDone("embedding", "item", texts, TRUE, embItemDelay)
          /\ embResults' = Append(embResults,
               WithEmbedding(chunk, EmbeddingResponse(texts).data[1]))
          /\ NextItem
       \/ /\ CanRetry(embRetry, embMaxRetries)
          /\ CallRetried(embRetryDelay)
          /\ UNCHANGED <<embPc, embBatch, embItem, embResults>>
       \/ /\ ~CanRetry(embRetry, embMaxRetries)
          /\ CallDone("embedding", "item", texts, FALSE, 0)
          /\ embResults' = Append(embResults, WithoutEmbedding(chunk))
          /\ NextItem
  /\ UNCHANGED <<embChunks, upResults>>
  /\ UNCHANGED <<base, rag, cite, services>>

\* storeInPinecone / storeChunks: initializeIndex, the filter on valid
\* embeddings and createBatches; either may throw
StoreStart ==
  /\ embPc = "store_start"
  /\ \/ /\ Len(UpsertBatches) > 0
        /\ embPc' = "upsert_call"
        /\ embBatch' = 1
     \/ /\ embPc' = "store_failed"
        /\ UNCHANGED embBatch
  /\ UNCHANGED <<embChunks, embItem, embRetry, embDelays, embCalls,
                 embResults, upResults>>
  /\ UNCHANGED <<base, rag, cite, services>>

\* the for loop of storeChunks moves to the next batch, or returns
NextUpsert ==
  IF embBatch < Len(UpsertBatches)
  THEN embBatch' = embBatch + 1 /\ UNCHANGED embPc
  ELSE embBatch' = 0 /\ embPc' = "stored"

\* storeChunks: one attempt of upsertVectors on the batch
UpsertAttempt ==
  /\ embPc = "upsert_call"
  /\ LET batch == UpsertBatches[embBatch]
         ids == [i \in 1..Len(batch) |-> batch[i].index]
     IN
       \/ /\ CallDone("upsert", "batch", ids, TRUE,
                      PauseAfterBatch(UpsertBatches, pcBatchDelay))
          /\ upResults' = [upResults EXCEPT !.successfulBatches = @ + 1]
          /\ NextUpsert
       \/ /\ CanRetry(embRetry, pcMaxRetries)
          /\ CallRetried(pcRetryDelay)
          /\ UNCHANGED <<embPc, embBatch, upResults>>
       \/ /\ ~CanRetry(embRetry, pcMaxRetries)
          /\ CallDone("upsert", "batch", ids, FALSE, 0)
          /\ upResults' = [upResults EXCEPT !.failedBatches = @ + 1]
          /\ NextUpsert
  /\ UNCHANGED <<embChunks, embItem, embResults>>
  /\ UNCHANGED <<base, rag, cite, services>>

EmbInit ==
  /\ StoreInit /\ RagIdle /\ CiteIdle /\ SvcIdle
  /\ embPc = "start"
  /\ embChunks \in EmbInputs
  /\ embBatch = 0
  /\ embItem = 0
  /\ embRetry = 0
  /\ embDelays = << >>
  /\ embCalls = << >>
  /\ embResults = << >>
  /\ upResults = [successfulBatches |-> 0, failedBatches |-> 0]

EmbNext ==
  \/ EmbStart
  \/ EmbBatchAttempt
  \/ EmbItemAttempt
  \/ StoreStart
  \/ UpsertAttempt

EmbedSpec == EmbInit /\ [][EmbNext]_vars

\* generateEmbeddings alone, up to its return
GenNext ==
  \/ EmbStart
  \/ EmbBatchAttempt
  \/ EmbItemAttempt

\* every awaited call and delay of the run settles
GenerateSpec == EmbInit /\ [][GenNext]_vars /\ WF_vars(GenNext)

\* ------------------------------------------------------ initializeIndex
\* concurrent pipeline runs, each calling initializeIndex and then
\* storeChunks on the one PineconeService
MaxInitializers == 2
Initializers == 1..MaxInitializers

\* waitForIndexReady(maxWaitTime = 60000), await this.delay(2000)
ixMaxWaitTime == 60000
ixPollDelay == 2000

IxLogged(p, op) ==
  ixLog' = Append(ixLog, [op |-> op, by |-> p, index |-> ixIndex])

IxGoto(p, pc) == ixPc' = [ixPc EXCEPT ![p] = pc]

\* indexList.indexes?.find(index => index.name === this.indexName): an index
\* is listed from its creation on, ready or not
ExistingIndex == ixIndex # "absent"

\* initializeIndex: listIndexes and the branch on existingIndex
IxList(p) ==
  /\ ixPc[p] = "list"
  /\ \/ IxGoto(p, IF ExistingIndex THEN "upsert" ELSE "create")
     \/ IxGoto(p, "failed")
  /\ UNCHANGED <<ixIndex, ixElapsed, ixLog, ixFrame>>

\* initializeIndex: createIndex; the service creates the index when there is
\* none and rejects the call otherwise
IxCreate(p) ==
  /\ ixPc[p] = "create"
  /\ IxLogged(p, "createIndex")
  /\ \/ /\ ixIndex = "absent"
        /\ ixIndex' = "creating"
        /\ IxGoto(p, "poll")
     \/ /\ IxGoto(p, "failed")
        /\ UNCHANGED ixIndex
  /\ UNCHANGED <<ixElapsed, ixFrame>>

\* waitForIndexReady: one turn of the loop, describeIndexStats then delay
IxPoll(p) ==
  /\ ixPc[p] = "poll"
  /\ ixElapsed[p] < ixMaxWaitTime
  /\ IF ixIndex = "ready"
     THEN /\ IxLogged(p, "ready")
          /\ IxGoto(p, "upsert")
          /\ UNCHANGED ixElapsed
     ELSE /\ ixElapsed' = [ixElapsed EXCEPT ![p] = @ + ixPollDelay]
          /\ UNCHANGED <<ixPc, ixLog>>
  /\ UNCHANGED <<ixIndex, ixFrame>>

\* waitForIndexReady: throw new Error('Index creation timeout')
IxTimeout(p) ==
  /\ ixPc[p] = "poll"
  /\ ixElapsed[p] >= ixMaxWaitTime
  /\ IxGoto(p, "failed")
  /\ UNCHANGED <<ixIndex, ixElapsed, ixLog, ixFrame>>

\* storeChunks: the first upsertVectors after initializeIndex returned true
IxUpsert(p) ==
  /\ ixPc[p] = "upsert"
  /\ IxLogged(p, "upsert")
  /\ IxGoto(p, "done")
  /\ UNCHANGED <<ixIndex, ixElapsed, ixFrame>>

\* the vector service finishes building the index
IxBecomesReady ==
  /\ ixIndex = "creating"
  /\ ixIndex' = "ready"
  /\ UNCHANGED <<ixPc, ixElapsed, ixLog, ixFrame>>

IxInit ==
  /\ StoreInit /\ IxOthersIdle
  /\ ixIndex \in {"absent", "ready"}
  /\ ixPc = [p \in Initializers |-> "list"]
  /\ ixElapsed = [p \in Initializers |-> 0]
  /\ ixLog = << >>

IxNext ==
  \/ \E p \in Initializers :
       IxList(p) \/ IxCreate(p) \/ IxPoll(p) \/ IxTimeout(p) \/ IxUpsert(p)
  \/ IxBecomesReady

IndexSpec == IxInit /\ [][IxNext]_vars

\* ------------------------------------------------------------ chunkText
MaxTextLen == 3       \* characters of a transcript text
MaxSegments == 2      \* segments of a transcript
MaxSegLen == 2        \* characters of a segment's text
MaxTime == 1          \* latest segment time
MaxCkChunks == 3      \* chunks the splitter returns
FuzzyWords == 1       \* slice(0, 5) of findApproximateTimestamps, scaled down

Alphabet == {"a", "b", " "}
SegConfidence == 60   \* segment.confidence
FuzzyFactor == 7      \* * 0.7, in tenths

TranscriptTexts == SeqsUpTo(Alphabet, MaxTextLen) \ {<< >>}

\* segment lists with start <= end and non-decreasing starts
SegmentLists ==
  {q \in SeqsUpTo([length : 1..MaxSegLen, start : 0..MaxTime,
                   end : 0..MaxTime, confidence : {SegConfidence}],
                  MaxSegments) :
     /\ \A k \in 1..Len(q) : q[k].start <= q[k].end
     /\ \A k \in 1..(Len(q) - 1) : q[k].start <= q[k + 1].start}

\* String.prototype.trim
RECURSIVE trim(_)
trim(s) ==
  IF s = << >> THEN s
  ELSE IF Head(s) = " " THEN trim(Tail(s))
  ELSE IF s[Len(s)] = " " THEN trim(SubSeq(s, 1, Len(s) - 1))
  ELSE s

\* String.prototype.indexOf: position of the first occurrence, from 0, or -1
indexOf(s, sub) ==
  LET at == {i \in 0..(Len(s) - Len(sub)) :
               SubSeq(s, i + 1, i + Len(sub)) = sub}
  IN IF at = {} THEN -1 ELSE CHOOSE i \in at : \A j \in at : i <= j

\* chunk.trim().split(/\s+/).slice(0, n).join(' ')
RECURSIVE FirstWords(_, _)
FirstWords(s, n) ==
  LET t == trim(s)
      ends == {i \in 1..Len(t) : t[i] = " "}
      stop == IF ends = {} THEN Len(t) + 1
              ELSE CHOOSE i \in ends : \A j \in ends : i <= j
      rest == FirstWords(SubSeq(t, stop, Len(t)), n - 1)
  IN IF n = 0 \/ t = << >> THEN << >>
     ELSE SubSeq(t, 1, stop - 1)
            \o (IF rest = << >> THEN << >> ELSE <<" ">> \o rest)

NoTimestamps_Negative == [start |-> -1, end |-> -1, confidence |-> 0]

\* return { start: 0, end: 0, confidence: 0 }
NoTimestamps == [start |-> 0, end |-> 0, confidence |-> 0]

\* currentPos of the segment loops: the text position where segment k begins
RECURSIVE SegmentStart(_, _)
SegmentStart(segments, k) ==
  IF k = 1 THEN 0
  ELSE SegmentStart(segments, k - 1) + segments[k - 1].length

SegmentEnd(segments, k) == SegmentStart(segments, k) + segments[k].length

findApproximateTimestamps(chunk, fullText, segments) ==
  LET chunkWords == FirstWords(chunk, FuzzyWords)
      approximateStart == indexOf(fullText, chunkWords)
      holding == {k \in 1..Len(segments) :
                    /\ approximateStart >= SegmentStart(segments, k)
                    /\ approximateStart < SegmentEnd(segments, k)}
  IN IF approximateStart = -1 \/ holding = {} THEN NoTimestamps
     ELSE LET k == CHOOSE i \in holding : TRUE
          IN [start |-> segments[k].start, end |-> segments[k].end,
              confidence |-> (segments[k].confidence * FuzzyFactor) \div 10]

RECURSIVE SumConfidence(_, _)
SumConfidence(segments, K) ==
  IF K = {} THEN 0
  ELSE LET k == CHOOSE i \in K : TRUE
       IN segments[k].confidence + SumConfidence(segments, K \ {k})

mapChunkToTimestamps(chunk, fullText, segments) ==
  LET chunkStart == indexOf(fullText, trim(chunk))
      chunkEnd == chunkStart + Len(chunk)
      overlapping == {k \in 1..Len(segments) :
                        /\ SegmentEnd(segments, k) > chunkStart
                        /\ SegmentStart(segments, k) < chunkEnd}
      first == CHOOSE k \in overlapping : \A j \in overlapping : k <= j
      last == CHOOSE k \in overlapping : \A j \in overlapping : k >= j
  IN IF Len(segments) = 0 THEN NoTimestamps
     ELSE IF chunkStart = -1
          THEN findApproximateTimestamps(chunk, fullText, segments)
     ELSE IF overlapping = {} THEN NoTimestamps
     ELSE [start |-> segments[first].start, end |-> segments[last].end,
           confidence |-> SumConfidence(segments, overlapping)
                            \div Cardinality(overlapping)]

\* the object chunkText's map callback builds
ChunkMetadata(chunk, index, fullText, segments) ==
  LET timestamps == mapChunkToTimestamps(chunk, fullText, segments)
  IN [index |-> index, text |-> trim(chunk), length |-> Len(chunk),
      startTime |-> timestamps.start, endTime |-> timestamps.end,
      confidence |-> timestamps.confidence]

\* the windows the splitter may cut next: each begins after the beginning of
\* the last one, at most right after its end, and reaches further
NextWindows ==
  {w \in (1..Len(ckText)) \X (1..Len(ckText)) :
     /\ w[1] <= w[2]
     /\ w[2] > ckTo
     /\ IF ckTo = 0 THEN w[1] = 1 ELSE w[1] > ckFrom /\ w[1] <= ckTo + 1}

\* what the splitter may return for a window: the trimmed text of the
\* window, or a text it has altered by a character
SplitterOutputs(w) ==
  LET cut == trim(SubSeq(ckText, w[1], w[2]))
  IN IF cut = << >> THEN {}
     ELSE {[text |-> cut, intact |-> TRUE]}
            \cup {[text |-> Append(cut, c), intact |-> FALSE] : c \in Alphabet}

\* chunkText: the splitter cuts a window that trims to nothing
CkSkip ==
  /\ ckPc = "split"
  /\ \E w \in NextWindows :
       /\ SplitterOutputs(w) = {}
       /\ ckFrom' = w[1] /\ ckTo' = w[2]
  /\ UNCHANGED <<ckPc, ckText, ckSegments, ckChunks, ckFrame>>

\* chunkText: the splitter's next chunk and the map callback's object for it
CkChunk ==
  /\ ckPc = "split"
  /\ Len(ckChunks) < MaxCkChunks
  /\ \E w \in NextWindows : \E out \in SplitterOutputs(w) :
       /\ ckFrom' = w[1] /\ ckTo' = w[2]
       /\ ckChunks' = Append(ckChunks,
            [from |-> w[1], intact |-> out.intact, given |-> out.text,
             meta |-> ChunkMetadata(out.text, Len(ckChunks), ckText,
                                    ckSegments)])
  /\ UNCHANGED <<ckPc, ckText, ckSegments, ckFrame>>

\* chunkText: return chunksWithMetadata
CkReturn ==
  /\ ckPc = "split"
  /\ ckTo = Len(ckText)
  /\ ckPc' = "done"
  /\ UNCHANGED <<ckText, ckSegments, ckFrom, ckTo, ckChunks, ckFrame>>

CkInit ==
  /\ StoreInit /\ CkOthersIdle
  /\ ckPc = "split"
  /\ ckText \in TranscriptTexts
  /\ ckSegments \in SegmentLists
  /\ ckFrom = 0
  /\ ckTo = 0
  /\ ckChunks = << >>

CkNext == CkSkip \/ CkChunk \/ CkReturn

ChunkSpec == CkInit /\ [][CkNext]_vars

\* ------------------------------------------------------ validateOptions
defaultChunkSize == 1000
defaultOverlap == 200
MinChunkSize == 100
LargeChunkSize == 4000

\* option values around the thresholds of validateOptions
ChunkSizes == {-1, 0, 1, 99, 100, 101, 150, 200, 201, 1000, 4000, 4001}
Overlaps == {-1, 0, 1, 50, 75, 76, 99, 100, 150, 200, 1000, 4001}

RECURSIVE Messages(_)
Messages(checks) ==
  IF checks = << >> THEN << >>
  ELSE (IF Head(checks)[1] THEN <<Head(checks)[2]>> ELSE << >>)
         \o Messages(Tail(checks))

validateOptions(options) ==
  LET chunkSize == OrElse(options.chunkSize, defaultChunkSize)
      overlap == OrElse(options.overlap, defaultOverlap)
      errors == Messages(<<
        <<chunkSize < MinChunkSize,
          "Chunk size too small (minimum 100 characters)">>,
        <<overlap >= chunkSize, "Overlap must be smaller than chunk size">>,
        <<overlap < 0, "Overlap cannot be negative">> >>)
      warnings == Messages(<<
        <<chunkSize > LargeChunkSize,
          "Large chunk size may affect embedding quality">>,
        <<2 * overlap > chunkSize,
          "Large overlap may cause excessive duplication">> >>)
  IN [valid |-> Len(errors) = 0, errors |-> errors, warnings |-> warnings]

\* a caller validates its options
VoValidate ==
  /\ voPc = "call"
  /\ voResult' = validateOptions(voOptions)
  /\ voPc' = "done"
  /\ UNCHANGED <<voOptions, voFrame>>

VoInit ==
  /\ StoreInit /\ VoOthersIdle
  /\ voPc = "call"
  /\ voOptions \in [chunkSize : ChunkSizes, overlap : Overlaps]
  /\ voResult = [valid |-> TRUE, errors |-> << >>, warnings |-> << >>]

VoNext == VoValidate

OptionsSpec == VoInit /\ [][VoNext]_vars

\* ------------------------------------------------------ transcribeAudio
MaxAudioParts == 3    \* length of an audio file, in parts of equal duration

maxFileSize == 25 * 1024 * 1024

\* file sizes around the limit of the transcription API
FileSizes == {1, maxFileSize - 1, maxFileSize, maxFileSize + 1,
              2 * maxFileSize}

AudioFiles == [exists : BOOLEAN, size : FileSizes, parts : 1..MaxAudioParts]

\* error.status of a failed request; 0 is a failure without a status
ErrorStatuses == {413, 400, 401, 0}

\* performTranscription's catch: the message thrown for a status
ApiErrorMessage(status) ==
  IF status = 413 THEN <<"Audio file too large for Whisper API">>
  ELSE IF status = 400 THEN <<"Invalid audio file format">>
  ELSE IF status = 401 THEN <<"Invalid OpenAI API key">>
  ELSE Wrap("OpenAI API error", <<"cause">>)

\* if (stats.size > this.maxFileSize)
IsLargeFile(file) == file.size > maxFileSize

RequestFile_FirstPart(file) == {1}

\* fs.createReadStream(audioPath): the parts of the file sent in the request
RequestFile(file) == 1..file.parts

\* the verbose_json response of a transcription request: the text (here the
\* parts of the audio it covers), language, duration and the raw segments
ApiResponse(file) ==
  [text |-> RequestFile(file), language |-> "en", duration |-> file.parts,
   segments |-> [k \in 1..file.parts |->
                   [id |-> k - 1, start |-> k - 1, end |-> k, text |-> {k},
                    avg_logprob |-> 0 - k]]]

\* parseSegments: id, start, end, text and confidence of each raw segment
parseSegments(transcription) ==
  [k \in 1..Len(transcription.segments) |->
     [id |-> k - 1,
      start |-> OrElse(transcription.segments[k].start, 0),
      end |-> OrElse(transcription.segments[k].end, 0),
      text |-> transcription.segments[k].text,
      confidence |-> OrElse(transcription.segments[k].avg_logprob, 0)]]

\* the object transcribeAudio builds from the response
MappedTranscript(transcription) ==
  [text |-> transcription.text,
   segments |-> parseSegments(transcription),
   language |-> transcription.language,
   duration |-> OrElse(transcription.duration, 0),
   wordCount |-> Cardinality(transcription.text)]

NoTranscript == [text |-> {}]

\* transcribeAudio: existsSync, statSync and the branch on the size
TrStat ==
  /\ trPc = "stat"
  /\ IF ~trFile.exists
     THEN /\ trPc' = "thrown"
          /\ trError' = Wrap("Transcription failed", <<"Audio file not found">>)
     ELSE /\ trPc' = IF IsLargeFile(trFile) THEN "large" ELSE "small"
          /\ UNCHANGED trError
  /\ UNCHANGED <<trFile, trCalls, trResult, trStage, trFrame>>

\* performTranscription called by transcribeAudio: the mapped transcript, or
\* the error wrapped by transcribeAudio's catch
TrSmall ==
  /\ trPc = "small"
  /\ \/ /\ trCalls' = Append(trCalls,
                             [file |-> RequestFile(trFile), status |-> 200])
        /\ trResult' = MappedTranscript(ApiResponse(trFile))
        /\ trPc' = "returned"
        /\ UNCHANGED trError
     \/ \E status \in ErrorStatuses :
          /\ trCalls' = Append(trCalls,
                               [file |-> RequestFile(trFile), status |-> status])
          /\ trError' = Wrap("Transcription failed", ApiErrorMessage(status))
          /\ trPc' = "thrown"
          /\ UNCHANGED trResult
  /\ UNCHANGED <<trFile, trStage, trFrame>>

\* transcribeLargeFile: one performTranscription on the file, its response
\* returned as it is, or the error wrapped twice
TrLarge ==
  /\ trPc = "large"
  /\ \/ /\ trCalls' = Append(trCalls,
                             [file |-> RequestFile(trFile), status |-> 200])
        /\ trResult' = ApiResponse(trFile)
        /\ trPc' = "returned"
        /\ UNCHANGED trError
     \/ \E status \in ErrorStatuses :
          /\ trCalls' = Append(trCalls,
                               [file |-> RequestFile(trFile), status |-> status])
          /\ trError' = Wrap("Transcription failed",
                             Wrap("Large file transcription failed",
                                  ApiErrorMessage(status)))
          /\ trPc' = "thrown"
          /\ UNCHANGED trResult
  /\ UNCHANGED <<trFile, trStage, trFrame>>

\* ProcessingService: transcribeAudio's catch wraps the error and
\* processFile's catch writes the FAILED stage
TrCallerFails ==
  /\ trPc = "thrown"
  /\ trError' = Wrap("Transcription failed", trError)
  /\ trStage' = processingStages.FAILED
  /\ trPc' = "failed"
  /\ UNCHANGED <<trFile, trCalls, trResult, trFrame>>

\* ProcessingService.processFile goes on to the chunking step
TrCallerContinues ==
  /\ trPc = "returned"
  /\ trStage' = processingStages.CHUNKING
  /\ trPc' = "done"
  /\ UNCHANGED <<trFile, trCalls, trResult, trError, trFrame>>

TrInit ==
  /\ StoreInit /\ TrOthersIdle
  /\ trPc = "stat"
  /\ trFile \in AudioFiles
  /\ trCalls = << >>
  /\ trResult = NoTranscript
  /\ trError = << >>
  /\ trStage = processingStages.TRANSCRIBING

TrNext == TrStat \/ TrSmall \/ TrLarge \/ TrCallerFails \/ TrCallerContinues

TranscribeSpec == TrInit /\ [][TrNext]_vars

\* ------------------------------------------------------ POST /api/upload
MaxUploads == 2       \* upload requests served in one behaviour
UploadIds == 1..MaxUploads

\* the file part of a request: none, of a type outside allowedTypes, or of
\* an allowed type; and whether the body has a title
UploadRequests == [file : {"none", "unsupported", "supported"},
                   title : BOOLEAN]

UpGoto(r, pc) == upPc' = [upPc EXCEPT ![r] = pc]

UpReplied(r, status) ==
  /\ upReply' = [upReply EXCEPT ![r] = status]
  /\ UpGoto(r, "done")

\* upload.single('file'): fileFilter, then diskStorage writes the file to
\* uploads/ before the handler runs
UpMulter(r) ==
  /\ upPc[r] = "multer"
  /\ IF upReq[r].file = "unsupported"
     THEN UpReplied(r, 500) /\ UNCHANGED upDisk
     ELSE /\ UpGoto(r, "validate")
          /\ upDisk' = IF upReq[r].file = "supported"
                       THEN upDisk \cup {r} ELSE upDisk
          /\ UNCHANGED upReply
  /\ UNCHANGED <<upReq, upMedia, upRows, upTasks, upFrame>>

\* the handler's checks of req.file and title
UpValidate(r) ==
  /\ upPc[r] = "validate"
  /\ IF upReq[r].file = "none" \/ ~upReq[r].title
     THEN UpReplied(r, 400)
     ELSE UpGoto(r, "store") /\ UNCHANGED upReply
  /\ UNCHANGED <<upReq, upDisk, upMedia, upRows, upTasks, upFrame>>

\* storage upload, then fs.unlink(filePath); the catch block unlinks too
UpStore(r) ==
  /\ upPc[r] = "store"
  /\ upDisk' = upDisk \ {r}
  /\ \/ /\ upMedia' = upMedia \cup {r}
        /\ UpGoto(r, "insert")
        /\ UNCHANGED upReply
     \/ /\ UpReplied(r, 500)
        /\ UNCHANGED upMedia
  /\ UNCHANGED <<upReq, upRows, upTasks, upFrame>>

\* insert of the videos row and the response
UpInsert(r) ==
  /\ upPc[r] = "insert"
  /\ \/ /\ upRows' = upRows \cup {r}
        /\ upReply' = [upReply EXCEPT ![r] = 200]
        /\ UpGoto(r, "schedule")
     \/ /\ UpReplied(r, 500)
        /\ UNCHANGED upRows
  /\ UNCHANGED <<upReq, upDisk, upMedia, upTasks, upFrame>>

\* setImmediate(async () => ...)
UpSchedule(r) ==
  /\ upPc[r] = "schedule"
  /\ upTasks' = upTasks \cup {r}
  /\ UpGoto(r, "done")
  /\ UNCHANGED <<upReq, upReply, upDisk, upMedia, upRows, upFrame>>

UpInit ==
  /\ StoreInit /\ UpOthersIdle
  /\ upPc = [r \in UploadIds |-> "multer"]
  /\ upReq \in [UploadIds -> UploadRequests]
  /\ upReply = [r \in UploadIds |-> 0]
  /\ upDisk = {}
  /\ upMedia = {}
  /\ upRows = {}
  /\ upTasks = {}

UpNext ==
  \E r \in UploadIds :
    UpMulter(r) \/ UpValidate(r) \/ UpStore(r) \/ UpInsert(r) \/ UpSchedule(r)

UploadSpec == UpInit /\ [][UpNext]_vars

\* -------------------------------------------- questions and the index
MaxQuestions == 2     \* chat requests served in one behaviour
MaxRecords == 2       \* VectorRecords a pipeline run stores
QuestionIds == 1..MaxQuestions

QrGoto(c, pc) == qrPc' = [qrPc EXCEPT ![c] = pc]

\* the upload route's insert, or the reprocess route's deletion of the
\* vectors and reset of the status: a pipeline run starts
QrProcessing ==
  /\ qrRun = "idle"
  /\ qrStatus \in {"none", "ready"}
  /\ qrStatus' = "processing"
  /\ qrRecords' = {}
  /\ qrRun' = "init"
  /\ UNCHANGED <<qrPc, qrIndex, qrHandle, qrWrites, qrFrame>>

\* storeInPinecone: initializeIndex creates the index when there is none and
\* waits for it; a failure ends the run
QrPipelineInitializes ==
  /\ qrRun = "init"
  /\ \/ /\ qrIndex' = IF qrIndex = "absent" THEN "ready" ELSE qrIndex
        /\ qrRun' = "store"
     \/ /\ qrIndex' = IF qrIndex = "absent" THEN "creating" ELSE qrIndex
        /\ qrRun' = "idle"
     \/ /\ qrRun' = "idle"
        /\ UNCHANGED qrIndex
  /\ UNCHANGED <<qrPc, qrStatus, qrRecords, qrHandle, qrWrites, qrFrame>>

\* storeChunks: the upserts of the run
QrPipelineStores ==
  /\ qrRun = "store"
  /\ \E n \in 0..MaxRecords : qrRecords' = 1..n
  /\ qrRun' = "complete"
  /\ UNCHANGED <<qrPc, qrStatus, qrIndex, qrHandle, qrWrites, qrFrame>>

\* updateProcessingStatus(COMPLETED)
QrPipelineCompletes ==
  /\ qrRun = "complete"
  /\ qrStatus' = "ready"
  /\ qrRun' = "idle"
  /\ UNCHANGED <<qrPc, qrIndex, qrRecords, qrHandle, qrWrites, qrFrame>>

\* the vector service finishes building the index
QrIndexBecomesReady ==
  /\ qrIndex = "creating"
  /\ qrIndex' = "ready"
  /\ UNCHANGED <<qrPc, qrStatus, qrRun, qrRecords, qrHandle, qrWrites,
                 qrFrame>>

\* POST /api/chat: the select of the row and the status guard
QrCheck(c) ==
  /\ qrPc[c] = "check"
  /\ QrGoto(c, IF ChatAccepts(qrStatus) THEN "search" ELSE "rejected")
  /\ UNCHANGED <<qrStatus, qrRun, qrIndex, qrRecords, qrHandle, qrWrites,
                 qrFrame>>

\* searchSimilar: if (!this.index) initializeIndex(), which creates the
\* index when listIndexes does not list it; then the query
QrSearch(c) ==
  /\ qrPc[c] = "search"
  /\ IF qrHandle \/ qrIndex # "absent"
     THEN UNCHANGED <<qrIndex, qrWrites>>
     ELSE /\ qrIndex' = "creating"
          /\ qrWrites' = Append(qrWrites, [op |-> "createIndex", by |-> c])
  /\ qrHandle' = TRUE
  /\ QrGoto(c, "answered")
  /\ UNCHANGED <<qrStatus, qrRun, qrRecords, qrFrame>>

QrInit ==
  /\ StoreInit /\ QrOthersIdle
  /\ qrPc = [c \in QuestionIds |-> "check"]
  /\ qrStatus = "none"
  /\ qrRun = "idle"
  /\ qrIndex \in {"absent", "ready"}
  /\ qrRecords = {}
  /\ qrHandle = FALSE
  /\ qrWrites = << >>

QrNext ==
  \/ QrProcessing
  \/ QrPipelineInitializes
  \/ QrPipelineStores
  \/ QrPipelineCompletes
  \/ QrIndexBecomesReady
  \/ \E c \in QuestionIds : QrCheck(c) \/ QrSearch(c)

QuerySpec == QrInit /\ [][QrNext]_vars

\* ------------------------------------------- chunk rows and the index
\* one pipeline run from generateEmbeddings to COMPLETED, and the status
\* endpoint
MaxDbChunks == 3

\* the chunks chunkText returns: index from 0, and the text
DbChunkLists ==
  {[i \in 1..n |-> [index |-> i - 1, text |-> <<"words", i - 1>>]] :
     n \in 1..MaxDbChunks}

\* chunk.field, undefined (Null) when the object has no such property
Field(chunk, f) == IF f \in DOMAIN chunk THEN chunk[f] ELSE Null

\* saveToDatabase's chunkRecords: pinecone_id: chunk.pineconeId || null,
\* has_embedding: !!(chunk.embedding && chunk.pineconeId)
chunkRecord(chunk) ==
  [chunk_index |-> chunk.index,
   pinecone_id |-> Field(chunk, "pineconeId"),
   has_embedding |-> Field(chunk, "embedding") # Null
                       /\ Field(chunk, "pineconeId") # Null]

\* storeChunks' vectors: id `${videoId}_chunk_${chunk.index}_${uuidv4()}`
UpsertedVector(chunk) ==
  [id |-> <<"chunk", chunk.index, "uuid">>,
   metadata |-> [chunkIndex |-> chunk.index]]

\* storeChunks' batches of the chunks with a valid embedding
DbUpsertBatches == createBatches(SelectSeq(dbWith, HasEmbedding), BatchSize)

\* the status endpoint's count of rows with has_embedding = true
embeddedChunksCount == Cardinality({r \in dbRows : r.has_embedding})

\* generateEmbeddings: a new object per chunk, with the embedding or with
\* embedding null; the chunks passed in are left as they are
DbEmbed ==
  /\ dbPc = "embed"
  /\ \E embedded \in SUBSET (1..Len(dbChunks)) :
       dbWith' = [i \in 1..Len(dbChunks) |->
                    IF i \in embedded
                    THEN WithEmbedding(dbChunks[i],
                           [embedding |-> <<"vector", dbChunks[i].text>>])
                    ELSE WithoutEmbedding(dbChunks[i])]
  /\ dbPc' = "store"
  /\ UNCHANGED <<dbChunks, dbBatch, dbVectors, dbRows, dbReport>>
  /\ UNCHANGED dbFrame

\* storeChunks: throws when no chunk has an embedding, else one upsert
\* batch per step, a failed batch being counted only
DbStore ==
  /\ dbPc = "store"
  /\ IF Len(DbUpsertBatches) = 0
     THEN dbPc' = "failed" /\ UNCHANGED <<dbBatch, dbVectors>>
     ELSE /\ \E ok \in BOOLEAN :
               dbVectors' =
                 IF ok
                 THEN dbVectors \cup
                        {UpsertedVector(DbUpsertBatches[dbBatch + 1][i]) :
                           i \in 1..Len(DbUpsertBatches[dbBatch + 1])}
                 ELSE dbVectors
          /\ IF dbBatch + 1 < Len(DbUpsertBatches)
             THEN dbBatch' = dbBatch + 1 /\ UNCHANGED dbPc
             ELSE dbBatch' = 0 /\ dbPc' = "save_transcript"
  /\ UNCHANGED <<dbChunks, dbWith, dbRows, dbReport>>
  /\ UNCHANGED dbFrame

\* saveToDatabase: the insert of the transcript
DbSaveTranscript ==
  /\ dbPc = "save_transcript"
  /\ \E ok \in BOOLEAN : dbPc' = IF ok THEN "save_chunks" ELSE "failed"
  /\ UNCHANGED <<dbChunks, dbWith, dbBatch, dbVectors, dbRows, dbReport>>
  /\ UNCHANGED dbFrame

\* saveToDatabase: the insert of chunkRecords, built from the chunks of
\* chunkText
DbSaveChunks ==
  /\ dbPc = "save_chunks"
  /\ \E ok \in BOOLEAN :
       IF ok
       THEN /\ dbRows' = {chunkRecord(dbChunks[i]) : i \in 1..Len(dbChunks)}
            /\ dbPc' = "st_completed"
       ELSE dbPc' = "failed" /\ UNCHANGED dbRows
  /\ UNCHANGED <<dbChunks, dbWith, dbBatch, dbVectors, dbReport>>
  /\ UNCHANGED dbFrame

\* updateProcessingStatus(videoId, COMPLETED, 100)
DbCompleted ==
  /\ dbPc = "st_completed"
  /\ dbPc' = "completed"
  /\ UNCHANGED <<dbChunks, dbWith, dbBatch, dbVectors, dbRows, dbReport>>
  /\ UNCHANGED dbFrame

\* GET /status/:videoId: the two counts over text_chunks
DbStatus ==
  /\ dbReport' = <<[total |-> Cardinality(dbRows),
                    withEmbeddings |-> embeddedChunksCount]>>
  /\ dbReport' # dbReport
  /\ UNCHANGED <<dbPc, dbChunks, dbWith, dbBatch, dbVectors, dbRows>>
  /\ UNCHANGED dbFrame

DbInit ==
  /\ StoreInit /\ DbOthersIdle
  /\ dbPc = "embed"
  /\ dbChunks \in DbChunkLists
  /\ dbWith = << >>
  /\ dbBatch = 0
  /\ dbVectors = {}
  /\ dbRows = {}
  /\ dbReport = << >>

DbNext ==
  \/ DbEmbed
  \/ DbStore
  \/ DbSaveTranscript
  \/ DbSaveChunks
  \/ DbCompleted
  \/ DbStatus

PersistSpec == DbInit /\ [][DbNext]_vars

\* ================================================================ claims
Stages == processingStages

\* the order of stages a run announces
RunOrder == <<Stages.EXTRACTING_AUDIO, Stages.TRANSCRIBING, Stages.CHUNKING,
              Stages.EMBEDDING, Stages.STORING, Stages.COMPLETED>>

\* the run of v has returned to the event loop for the last time
RunOver(v) == plPc[v] = "done"
RunFailed(v) == RunOver(v) /\ plErr[v] # Null

\* C1: the status writes processFile issues for a recording are, in order,
\* a prefix of extracting_audio, transcribing, chunking, embedding, storing,
\* completed (none skipped, none repeated, progress non-decreasing along
\* it), optionally followed by one write of failed that takes the place of a
\* stage not yet written; nothing is written after completed or failed, and
\* a run that returns normally has written all six.
C1_StageOrder ==
  \A v \in Videos :
    LET w == plWrites[v]
        n == Len(w)
        m == IF n > 0 /\ w[n].stage = Stages.FAILED THEN n - 1 ELSE n
    IN /\ m <= Len(RunOrder)
       /\ \A i \in 1..m : w[i].stage = RunOrder[i]
       /\ \A i \in 1..m : \A j \in i..m : w[i].progress <= w[j].progress
       /\ n > m => m < Len(RunOrder)
       /\ (RunOver(v) /\ plErr[v] = Null) => m = Len(RunOrder)

C1_Witness ==
  \E v \in Videos :
    /\ RunOver(v) /\ plErr[v] = Null
    /\ Len(plWrites[v]) = 6
    /\ plWrites[v][6].stage = Stages.COMPLETED

\* C2: while the work of a stage is being performed for a recording, its
\* persisted status record shows that stage and its progress, also in
\* executions where a write to the record store returned an error.
WorkStage ==
  [extract |-> [stage |-> Stages.EXTRACTING_AUDIO, progress |-> 10],
   transcribe |-> [stage |-> Stages.TRANSCRIBING, progress |-> 25],
   chunk |-> [stage |-> Stages.CHUNKING, progress |-> 50],
   embed |-> [stage |-> Stages.EMBEDDING, progress |-> 70],
   store |-> [stage |-> Stages.STORING, progress |-> 85]]

C2_StatusBeforeWork ==
  \A v \in Videos :
    (plPc[v] \in DOMAIN WorkStage /\ videos[v].exists) =>
       /\ videos[v].stage = WorkStage[plPc[v]].stage
       /\ videos[v].progress = WorkStage[plPc[v]].progress

\* the work of processFile's try block, in program order
WorkOrder == <<"extract", "transcribe", "chunk", "embed", "store",
               "save_transcript", "save_chunks">>

IsPrefix(p, q) == Len(p) <= Len(q) /\ \A i \in 1..Len(p) : p[i] = q[i]

\* C3: if a stage of a run throws, the run ends with the recording's status
\* record at status=failed, stage=failed and error set to the thrown message
\* (as thrown by the stage, or as rethrown by processFile), and the work
\* performed in the run is the throwing stage and the stages before it, no
\* later one.
C3_FailureRecorded ==
  [][\A v \in Videos :
       (plPc[v] = "handler" /\ plPc'[v] = "done" /\ plWork[v] # << >>
          /\ videos'[v].exists) =>
         /\ videos'[v].status = "failed"
         /\ videos'[v].stage = Stages.FAILED
         /\ videos'[v].error \in {plErr[v], Tail(plErr[v])}
         /\ IsPrefix(plWork'[v], WorkOrder)]_vars

\* C4: a run that ends in failure after it has written VectorRecords for the
\* recording has called delete-by-filter for that recording.
C4_VectorsDeletedOnFailure ==
  \A v \in Videos :
    (RunFailed(v) /\ plStored[v] # {}) =>
       \E c \in deleteCalls : c.by = "pipeline" /\ c.video = v

BeforeSave == {"download", "st_extract", "extract", "st_transcribe",
               "transcribe", "st_chunk", "chunk", "st_embed", "embed",
               "st_store", "store", "save_transcript"}

RpDecides(h) == rp[h].pc = "idle" /\ rp'[h].pc # "idle"
\* handler h is past its guards and has not answered yet
RpAccepted(h) ==
  rp[h].pc \in {"del_vectors", "del_chats", "del_chunks", "del_transcripts",
                "reset"}

\* C6: a reprocess request for a recording that is absent, or whose status
\* is processing, ends in the step that reads the row, and that step changes
\* neither the status record nor the recording's Transcript, Chunks,
\* Exchanges and VectorRecords.
C6_RejectedReprocessMutatesNothing ==
  [][\A h \in RpIds :
       RpDecides(h) =>
         LET row == videos[rp'[h].video] IN
           (~row.exists \/ row.status = "processing") =>
              /\ rp'[h].pc = "done"
              /\ UNCHANGED <<videos, transcripts, textChunks, exchanges,
                             vectors>>]_vars

C6_Witness ==
  \E h \in RpIds :
    /\ rp[h].pc = "done" /\ rp[h].read = "processing"
    /\ videos[rp[h].video].status = "processing"
    /\ vectors[rp[h].video] # {}

\* the step in which handler h's status reset returns
RpResets(h) == rp[h].pc = "reset" /\ rp'[h].pc = "done"

C8_ReprocessLeavesProcessing ==
  \A h \in RpIds :
    (rp[h].pc = "done" /\ rp[h].read \in {"ready", "failed"})
       ~> (/\ rp[h].video \in Videos
           /\ \/ ~videos[rp[h].video].exists
              \/ videos[rp[h].video].status # "processing")

\* C9: once the persisted stage of a recording is completed or failed, a
\* step changes it only if it is the status reset of an accepted reprocess
\* of that recording, and then to uploading.
C9_TerminalUntilReprocess ==
  [][\A v \in Videos :
       (/\ videos[v].exists /\ videos'[v].exists
        /\ videos[v].stage \in {Stages.COMPLETED, Stages.FAILED}
        /\ videos'[v].stage # videos[v].stage) =>
          /\ \E h \in RpIds :
               RpResets(h) /\ rp[h].video = v /\ rp[h].read \in {"ready", "failed"}
          /\ videos'[v].stage = Stages.UPLOADING]_vars

C9_Witness ==
  \E h \in RpIds :
    /\ rp[h].pc = "done" /\ rp[h].read = "ready" /\ rp[h].clean
    /\ videos[rp[h].video].stage = Stages.UPLOADING
    /\ RunOver(rp[h].video)

\* C10: the status record of a recording has at most one writer at a time:
\* its pipeline task until that task has finished (failure handler
\* included), or one accepted reprocess request.
RunActive(v) == plPc[v] \notin {"none", "rejected", "done"}

Writers(v) ==
  (IF RunActive(v) THEN 1 ELSE 0)
    + Cardinality({h \in RpIds : RpAccepted(h) /\ rp[h].video = v})

C10_SingleWriter == \A v \in Videos : Writers(v) <= 1

\* ----------------------------------------------------------------- C11
IsPrimary(call) == call.options = PrimaryOptions
IsFallback(call) == call.options = FallbackOptions
ReturnedNone(call) == call.ok /\ Len(call.results) = 0
FallbackCalls == {i \in 1..Len(ragCalls) : IsFallback(ragCalls[i])}

\* C11: the fallback query (topK 3, minScore 0.1) is issued exactly when
\* the primary query (topK 5, minScore 0.3) returned zero matches: it is
\* issued at most once, only right after a primary query that returned
\* nothing, and always once such a primary query has returned; the
\* "not found" answer is returned only after the fallback query was issued
\* and returned zero matches too.
C11_FallbackBeforeNotFound ==
  /\ Cardinality(FallbackCalls) <= 1
  /\ Len(ragCalls) >= 1 => IsPrimary(ragCalls[1])
  /\ \A i \in FallbackCalls :
       i = 2 /\ IsPrimary(ragCalls[1]) /\ ReturnedNone(ragCalls[1])
  /\ (/\ Len(ragCalls) >= 1
      /\ ReturnedNone(ragCalls[1])
      /\ ragPc # "fallback") => FallbackCalls # {}
  /\ ragResult = NotFoundAnswer =>
       \E i \in FallbackCalls : ReturnedNone(ragCalls[i])

\* the "not found" answer was returned, after both queries
C11_Witness ==
  /\ ragResult = NotFoundAnswer
  /\ Len(ragCalls) = 2
  /\ IsPrimary(ragCalls[1]) /\ IsFallback(ragCalls[2])

\* ----------------------------------------------------------------- C12
BothEmpty ==
  /\ Len(ragCalls) = 2
  /\ \A i \in 1..2 : ReturnedNone(ragCalls[i])

\* C12: when both the primary and the fallback query returned no match,
\* generateAIResponse is not invoked and the returned object is the fixed
\* "no information found" answer with no timestamps and no sources.
C12_NoGenerationWhenNothingFound ==
  BothEmpty =>
    /\ ragGenerated = 0
    /\ ragPc \in {"done", "replied"}
    /\ ragResult.text = "not_found"
    /\ ragResult.timestamps = << >>
    /\ ragResult.sources = << >>

\* the engine answered a question for which the index held records of the
\* recording, none of them scored 0.1 or more
C12_Witness ==
  /\ BothEmpty
  /\ ragPc = "done"
  /\ \E r \in ragIndex : r.metadata.videoId = RagVideo

\* ----------------------------------------------------------------- C13
\* C13: every searchSimilar call with options {topK, videoId, minScore}
\* returns matches that all score at least minScore, at most topK of them,
\* sorted by score descending, all of the requested recording, each match
\* carrying exactly id, score and metadata.
C13_SearchResults ==
  \A i \in 1..Len(ragCalls) :
    LET options == ragCalls[i].options
        results == ragCalls[i].results
    IN ragCalls[i].ok =>
         /\ Len(results) <= options.topK
         /\ \A k \in 1..Len(results) :
              /\ results[k].score >= options.minScore
              /\ results[k].metadata.videoId = options.videoId
              /\ DOMAIN results[k] = {"id", "score", "metadata"}
              /\ \E r \in ragIndex :
                   /\ r.id = results[k].id
                   /\ r.score = results[k].score
                   /\ r.metadata = results[k].metadata
         /\ \A k \in 1..(Len(results) - 1) :
              results[k].score >= results[k + 1].score

\* a query that returned topK matches of different scores, from an index
\* that holds more than topK records scoring at least minScore, one of them
\* another recording's, and a record of the recording below minScore
C13_Witness ==
  \E i \in 1..Len(ragCalls) :
    LET options == ragCalls[i].options
        results == ragCalls[i].results
    IN /\ ragCalls[i].ok
       /\ Len(results) = options.topK
       /\ results[1].score > results[Len(results)].score
       /\ Cardinality({r \in ragIndex : r.score >= options.minScore})
            > options.topK
       /\ \E r \in ragIndex : r.metadata.videoId # options.videoId

\* ----------------------------------------------------------------- C14
\* seconds a time token stands for: MM:SS or HH:MM:SS
TokenSeconds(token) ==
  IF Len(token) = 2 THEN 60 * token[1] + token[2]
  ELSE 3600 * token[1] + 60 * token[2] + token[3]

Holds(k, seconds) ==
  citeContext[k].startTime <= seconds /\ seconds <= citeContext[k].endTime
Holders(seconds) == {k \in 1..Len(citeContext) : Holds(k, seconds)}
FirstHolder(seconds) ==
  CHOOSE k \in Holders(seconds) : \A j \in Holders(seconds) : k <= j
Attributed == {i \in 1..Len(citeResponse) :
                 Holders(TokenSeconds(citeResponse[i])) # {}}
Cited(i) ==
  \E n \in 1..Len(citeResult) :
    /\ citeResult[n].timeString = citeResponse[i]
    /\ citeResult[n].time = TokenSeconds(citeResponse[i])
Returned == citePc = "returned"

\* C14: each time token of the answer is converted to seconds and
\* attributed to the first context chunk, in context order, whose interval
\* contains that second: when a token is attributed, every citation
\* returned is such a token's, with its seconds and that chunk's interval,
\* and an attributed token is cited unless an earlier attributed token lies
\* within the deduplication window; a token no chunk's interval contains
\* produces no citation.
C14_TokensAttributed ==
  Returned =>
    /\ Attributed # {} =>
         \A n \in 1..Len(citeResult) :
           \E i \in Attributed :
             LET seconds == TokenSeconds(citeResponse[i])
                 chunk == citeContext[FirstHolder(seconds)]
             IN /\ citeResult[n].time = seconds
                /\ citeResult[n].timeString = citeResponse[i]
                /\ citeResult[n].startTime = chunk.startTime
                /\ citeResult[n].endTime = chunk.endTime
                /\ citeResult[n].text = chunk.text
    /\ \A i \in Attributed :
         \/ Cited(i)
         \/ \E j \in Attributed :
              /\ j < i
              /\ Abs(TokenSeconds(citeResponse[j])
                       - TokenSeconds(citeResponse[i])) < DedupWindow
    /\ \A i \in 1..Len(citeResponse) : i \notin Attributed => ~Cited(i)

\* an answer with a token two chunks contain and a token no chunk contains:
\* one citation, of the first of the two chunks
C14_Witness ==
  /\ Returned
  /\ \E i \in Attributed :
       Cardinality(Holders(TokenSeconds(citeResponse[i]))) = 2
  /\ \E i \in 1..Len(citeResponse) : i \notin Attributed
  /\ Len(citeResult) = 1
  /\ citeResult[1].startTime = citeContext[1].startTime

\* ----------------------------------------------------------------- C15
NoTokens == Len(citeResponse) = 0

\* C15 as stated: an answer without any time token gets one citation per
\* context chunk, each with the chunk's start as its reference time.
C15_OnePerChunk ==
  (Returned /\ NoTokens) =>
    /\ Len(citeResult) = Len(citeContext)
    /\ \A k \in 1..Len(citeContext) :
         citeResult[k].time = citeContext[k].startTime

\* context chunks no earlier context chunk starts within 5 seconds of
Leading == {k \in 1..Len(citeContext) :
              \A j \in 1..(k - 1) :
                Abs(citeContext[j].startTime - citeContext[k].startTime)
                  >= DedupWindow}

\* C15, amended: an answer without any time token gets one citation per
\* context chunk that does not start within 5 seconds of an earlier context
\* chunk, in context order, each with the chunk's start as its reference
\* time.
C15_OnePerLeadingChunk ==
  (Returned /\ NoTokens) =>
    /\ Len(citeResult) = Cardinality(Leading)
    /\ \A n \in 1..Len(citeResult) :
         \E k \in Leading :
           /\ Cardinality({j \in Leading : j <= k}) = n
           /\ citeResult[n].time = citeContext[k].startTime
           /\ citeResult[n].startTime = citeContext[k].startTime
           /\ citeResult[n].text = citeContext[k].text

\* an answer without tokens over two chunks that start within 5 seconds
C15_Witness ==
  /\ Returned /\ NoTokens
  /\ Len(citeContext) = 2
  /\ citeContext[1].startTime # citeContext[2].startTime
  /\ Len(citeResult) = 1

\* ----------------------------------------------------------------- C16
\* C16: whenever the context handed to extractTimestamps is not empty, the
\* list it returns is not empty, whatever the answer says, also when every
\* time token of the answer lies outside every context chunk.
C16_NeverWithoutCitations ==
  (Returned /\ Len(citeContext) > 0) => Len(citeResult) > 0

\* an answer whose tokens all lie outside the chunks still gets citations
C16_Witness ==
  /\ Returned
  /\ Len(citeContext) > 0
  /\ Len(citeResponse) > 0
  /\ Attributed = {}
  /\ Len(citeResult) > 0

\* ----------------------------------------------------------------- C17
\* C17: no two citations of the returned list have reference times less
\* than 5 seconds apart, and of the citations that collapse the one that
\* occurs first in the answer is retained: a retained citation has no
\* attributed token before it within 5 seconds, and the first attributed
\* token is always retained.
C17_Deduplicated ==
  Returned =>
    /\ \A m, n \in 1..Len(citeResult) :
         m # n => Abs(citeResult[m].time - citeResult[n].time) >= DedupWindow
    /\ Attributed # {} =>
         /\ \A i \in Attributed : (\A j \in Attributed : i <= j) => Cited(i)
         /\ \A n \in 1..Len(citeResult) :
              \E i \in Attributed :
                /\ citeResult[n].timeString = citeResponse[i]
                /\ \A j \in Attributed :
                     j < i => Abs(TokenSeconds(citeResponse[j])
                                    - citeResult[n].time) >= DedupWindow

\* the answer "[05:30] ... [05:32]" over a chunk spanning 300-360 s: one
\* citation, the one of [05:30]
C17_Witness ==
  /\ Returned
  /\ citeResponse = <<<<5, 30>>, <<5, 32>>>>
  /\ \E k \in 1..Len(citeContext) :
       citeContext[k].startTime = 300 /\ citeContext[k].endTime = 360
  /\ Len(citeResult) = 1
  /\ citeResult[1].time = 330
  /\ citeResult[1].timeString = <<5, 30>>

\* ----------------------------------------------------------------- C18
EmbeddingCalls == {n \in 1..Len(embCalls) : embCalls[n].svc = "embedding"}
BatchCalls == {n \in EmbeddingCalls : embCalls[n].mode = "batch"}
ItemCalls == {n \in EmbeddingCalls : embCalls[n].mode = "item"}
UpsertCalls == {n \in 1..Len(embCalls) : embCalls[n].svc = "upsert"}
RetriedThenSucceeded(call) ==
  call.ok /\ Len(call.delays) >= 1 /\ Len(call.delays) <= 3

\* C18: an embedding batch call that fails k times (1 <= k <= 3) and then
\* succeeds gives every chunk of the batch a result, in input order, with
\* the embedding of its own text and none missing or null; no chunk of the
\* batch is submitted individually; each retry waits strictly longer than
\* the retry before it.
C18_RetriedBatchComplete ==
  \A n \in BatchCalls :
    LET call == embCalls[n]
        offset == (call.batch - 1) * BatchSize
    IN RetriedThenSucceeded(call) =>
         /\ Len(embResults) >= offset + Len(call.input)
         /\ \A k \in 1..Len(call.input) :
              /\ embResults[offset + k].text = call.input[k]
              /\ embResults[offset + k].embedding # Null
              /\ embResults[offset + k].embedding = <<"vector", call.input[k]>>
         /\ \A m \in ItemCalls : embCalls[m].batch # call.batch
         /\ \A i, j \in 1..Len(call.delays) :
              i < j => call.delays[i] < call.delays[j]

\* a batch of two chunks embedded at the third attempt
C18_Witness ==
  \E n \in BatchCalls :
    /\ embCalls[n].ok
    /\ Len(embCalls[n].delays) = 2
    /\ Len(embCalls[n].input) = 2
    /\ embPc = "stored"

\* ----------------------------------------------------------------- C19
ClaimedDelays == <<1000, 2000, 4000>>

\* C19: the embedding call and the vector upsert call follow one retry
\* discipline: at most 3 retries after the first attempt, the i-th retry
\* after a delay of 1000 * 2^(i-1) ms (1000, 2000, 4000), and when the last
\* attempt fails the error reaches the caller: a failed batch embedding
\* starts the per-item processing, a failed item embedding gives a result
\* without embedding, a failed upsert is counted as a failed batch.
C19_RetryDiscipline ==
  /\ embRetry = Len(embDelays)
  /\ IsPrefix(embDelays, ClaimedDelays)
  /\ \A n \in 1..Len(embCalls) :
       /\ IsPrefix(embCalls[n].delays, ClaimedDelays)
       /\ ~embCalls[n].ok => embCalls[n].delays = ClaimedDelays
  /\ \A n \in BatchCalls :
       ~embCalls[n].ok =>
         IF n = Len(embCalls)
         THEN embPc = "item_call" /\ embBatch = embCalls[n].batch
         ELSE /\ n + 1 \in ItemCalls
              /\ embCalls[n + 1].batch = embCalls[n].batch
  /\ Cardinality({n \in ItemCalls : ~embCalls[n].ok})
       = Cardinality({k \in 1..Len(embResults) : embResults[k].embedding = Null})
  /\ upResults.failedBatches
       = Cardinality({n \in UpsertCalls : ~embCalls[n].ok})
  /\ upResults.successfulBatches
       = Cardinality({n \in UpsertCalls : embCalls[n].ok})

\* an embedding call and an upsert call that both gave up after the fourth
\* attempt
C19_Witness ==
  /\ \E n \in EmbeddingCalls :
       ~embCalls[n].ok /\ embCalls[n].delays = <<1000, 2000, 4000>>
  /\ \E n \in UpsertCalls :
       ~embCalls[n].ok /\ embCalls[n].delays = <<1000, 2000, 4000>>
  /\ upResults.failedBatches >= 1

\* ----------------------------------------------------------------- C20
HasWords(chunk) == chunk.text # Blank /\ chunk.text # << >>
ValidInput == SelectSeq(embChunks, HasWords)
EmbReturned == embPc \in {"store_start", "upsert_call", "stored",
                          "store_failed"}

\* C20: for a non-empty chunk list generateEmbeddings never aborts; it
\* returns exactly one result per valid input chunk, in input order, each
\* with either an embedding or a null embedding and a recorded error;
\* chunks with empty text are never submitted; every chunk of a batch that
\* exhausted its retries is submitted on its own, and every valid chunk's
\* batch is processed, whatever happened to the batches before it.
C20_OneResultPerValidChunk ==
  Len(embChunks) > 0 =>
    /\ embPc # "embed_failed"
    /\ \A n \in EmbeddingCalls :
         \A k \in 1..Len(embCalls[n].input) :
           embCalls[n].input[k] \notin {Blank, << >>}
    /\ EmbReturned =>
         /\ Len(embResults) = Len(ValidInput)
         /\ \A k \in 1..Len(ValidInput) :
              /\ embResults[k].index = ValidInput[k].index
              /\ embResults[k].text = ValidInput[k].text
              /\ \/ embResults[k].embedding # Null
                    /\ embResults[k].embeddingError = Null
                 \/ embResults[k].embedding = Null
                    /\ embResults[k].embeddingError # Null
              /\ \E n \in BatchCalls :
                   \E i \in 1..Len(embCalls[n].input) :
                     embCalls[n].input[i] = ValidInput[k].text
         /\ \A n \in BatchCalls :
              ~embCalls[n].ok =>
                \A k \in 1..Len(embCalls[n].input) :
                  \E m \in ItemCalls :
                    /\ m > n
                    /\ embCalls[m].batch = embCalls[n].batch
                    /\ embCalls[m].input = <<embCalls[n].input[k]>>

\* a list with a blank chunk whose first batch exhausted its retries, one of
\* its chunks failing alone too, and whose second batch was embedded
C20_Witness ==
  /\ EmbReturned
  /\ Len(ValidInput) < Len(embChunks)
  /\ \E n \in BatchCalls : embCalls[n].batch = 1 /\ ~embCalls[n].ok
  /\ \E n \in BatchCalls : embCalls[n].batch = 2 /\ embCalls[n].ok
  /\ \E k \in 1..Len(embResults) : embResults[k].embedding = Null
  /\ \E k \in 1..Len(embResults) : embResults[k].embedding # Null

\* ----------------------------------------------------------------- C21
\* call n was the last call made for its embedding batch, and a later batch
\* has been started
Concluded(n) ==
  IF n < Len(embCalls)
  THEN /\ embCalls[n + 1].svc = "embedding"
       /\ embCalls[n + 1].batch > embCalls[n].batch
  ELSE embPc = "batch_call" /\ embBatch > embCalls[n].batch

\* C21: between the end of the processing of an embedding batch and the
\* first call of the next batch the fixed delay of 500 ms is awaited,
\* whether the batch was embedded or fell back to per-item processing.
C21_DelayBetweenBatches ==
  \A n \in EmbeddingCalls : Concluded(n) => embCalls[n].pause = 500

\* ----------------------------------------------------------------- C22
\* the calls of one service are made batch after batch, in input order
InBatchOrder(calls) ==
  \A m, n \in calls : m < n => embCalls[m].batch <= embCalls[n].batch

ItemCallsOf(b) == {n \in ItemCalls : embCalls[n].batch = b}

\* every call a batch can lead to has returned: the batch call succeeded, or
\* it failed and each chunk of the batch had its own call
EmbBatchFinished(b) ==
  \/ \E n \in BatchCalls : embCalls[n].batch = b /\ embCalls[n].ok
  \/ /\ \E n \in BatchCalls : embCalls[n].batch = b /\ ~embCalls[n].ok
     /\ Cardinality(ItemCallsOf(b)) = Len(EmbBatches[b])

\* the batches a service has started: those with a call made, and the one
\* whose call is pending
EmbStarted ==
  {embCalls[n].batch : n \in EmbeddingCalls}
    \cup (IF embPc \in {"batch_call", "item_call"} THEN {embBatch} ELSE {})

UpsertStarted ==
  {embCalls[n].batch : n \in UpsertCalls}
    \cup (IF embPc = "upsert_call" THEN {embBatch} ELSE {})

\* C22: within an embedding run and a vector-storage run the batches are
\* processed in input order, one at a time: a batch is started only after
\* every earlier batch has completely finished, retries and per-item
\* fallback included.
C22_BatchesInOrder ==
  /\ InBatchOrder(EmbeddingCalls)
  /\ InBatchOrder(UpsertCalls)
  /\ \A b \in EmbStarted : \A a \in 1..(b - 1) : EmbBatchFinished(a)
  /\ \A b \in UpsertStarted : \A a \in 1..(b - 1) :
       Cardinality({n \in UpsertCalls : embCalls[n].batch = a}) = 1
  /\ \A n \in UpsertCalls : EmbeddingCalls \subseteq 1..(n - 1)

C22_Witness ==
  /\ embPc = "stored"
  /\ Len(EmbBatches) = 2
  /\ Len(UpsertBatches) = 2
  /\ ItemCallsOf(1) # {}
  /\ \E n \in UpsertCalls : embCalls[n].batch = 1 /\ ~embCalls[n].ok

\* ----------------------------------------------------------------- C23
\* the run of video v has written COMPLETED and the row reads ready
ReachedCompleted(v) ==
  /\ plPc[v] = "cleanup"
  /\ videos[v] # NoVideo
  /\ videos[v].status = "ready"

\* C23: when a pipeline run reaches COMPLETED, the run has written one
\* VectorRecord for each chunk whose embedding succeeded, whatever upsert
\* batches failed.
C23_CompletedHasAllVectors ==
  \A v \in Videos : ReachedCompleted(v) => plStored[v] = plEmbedded[v]

\* ----------------------------------------------------------------- C24
IxOps(op) == {n \in 1..Len(ixLog) : ixLog[n].op = op}

\* the creation, if any, that upsert n follows
CreatedBefore(n) ==
  {m \in IxOps("createIndex") : m < n /\ ixLog[m].index = "absent"}

\* C24: whatever the number and interleaving of initializeIndex calls,
\* createIndex is never called when the index exists, so the index is created
\* at most once; after a creation no upsert is issued before
\* waitForIndexReady has seen the index ready; and a readiness wait ends after
\* at most maxWaitTime / 2000 polls.
C24_InitializeOnce ==
  /\ \A n \in IxOps("createIndex") : ixLog[n].index = "absent"
  /\ \A n \in IxOps("upsert") : \A m \in CreatedBefore(n) :
       \E k \in IxOps("ready") : m < k /\ k < n
  /\ \A p \in DOMAIN ixElapsed : ixElapsed[p] <= ixMaxWaitTime

\* ----------------------------------------------------------------- C25
\* the splitter returned every chunk as it cut it
AllIntact == \A i \in 1..Len(ckChunks) : ckChunks[i].intact

\* the segments' texts make up the transcript text
SegmentsCover ==
  /\ Len(ckSegments) > 0
  /\ SegmentEnd(ckSegments, Len(ckSegments)) = Len(ckText)

\* C25: for a text and a segment list with non-decreasing start times and
\* start <= end, the chunks chunkText returns have non-decreasing start times
\* and startTime <= endTime, also when a passage occurs more than once.
C25_ChunkTimesOrdered ==
  (ckPc = "done" /\ AllIntact /\ SegmentsCover) =>
    /\ \A i, j \in 1..Len(ckChunks) :
         i < j => ckChunks[i].meta.startTime <= ckChunks[j].meta.startTime
    /\ \A i \in 1..Len(ckChunks) :
         ckChunks[i].meta.startTime <= ckChunks[i].meta.endTime

\* ----------------------------------------------------------------- C26
ExactlyLocated(chunk) == indexOf(ckText, trim(chunk)) # -1

FuzzilyLocated(chunk) == indexOf(ckText, FirstWords(chunk, FuzzyWords)) # -1

Unlocated(chunk) ==
  \/ Len(ckSegments) = 0
  \/ ~ExactlyLocated(chunk) /\ ~FuzzilyLocated(chunk)

\* C26: timestamp reconciliation never fails the chunking: a chunk located
\* neither exactly nor by its first words, or chunked without segments, is
\* returned with start 0, end 0 and confidence 0, in its place among the
\* other chunks, which keep their own timestamps.
C26_UnlocatedChunkDefaults ==
  \A i \in 1..Len(ckChunks) :
    LET c == ckChunks[i]
    IN /\ c.meta.index = i - 1
       /\ c.meta.text = trim(c.given)
       /\ Unlocated(c.given) =>
            /\ c.meta.startTime = 0
            /\ c.meta.endTime = 0
            /\ c.meta.confidence = 0
       /\ ~Unlocated(c.given) =>
            /\ c.meta.startTime \in
                 {0} \cup {ckSegments[k].start : k \in 1..Len(ckSegments)}
            /\ c.meta.endTime \in
                 {0} \cup {ckSegments[k].end : k \in 1..Len(ckSegments)}

C26_Witness ==
  /\ ckPc = "done"
  /\ Len(ckSegments) > 0
  /\ \E i, j \in 1..Len(ckChunks) :
       /\ ~ExactlyLocated(ckChunks[i].given)
       /\ ~FuzzilyLocated(ckChunks[i].given)
       /\ i < j
       /\ ckChunks[j].meta.startTime > 0


\* ----------------------------------------------------------------- C27
\* C27: for integer chunkSize and overlap given as options, 0 included,
\* validateOptions reports the options invalid exactly when chunkSize < 100
\* or overlap >= chunkSize or overlap < 0.
C27_InvalidExactlyWhen ==
  voPc = "done" =>
    (~voResult.valid <=>
       \/ voOptions.chunkSize < 100
       \/ voOptions.overlap >= voOptions.chunkSize
       \/ voOptions.overlap < 0)

\* ----------------------------------------------------------------- C28
WholeFile == 1..trFile.parts

FailsValidation(r) == upReq[r].file # "supported" \/ ~upReq[r].title

\* C29: an upload rejected for a validation error is rejected at once and
\* leaves nothing behind: no Recording row, nothing in media storage, no
\* pipeline task and no uploaded file on the server's local disk.
C29_RejectedUploadLeavesNothing ==
  \A r \in DOMAIN upPc :
    FailsValidation(r) =>
      /\ upPc[r] \in {"multer", "validate", "done"}
      /\ upPc[r] = "done" =>
           /\ upReply[r] \in {400, 500}
           /\ r \notin upRows
           /\ r \notin upMedia
           /\ r \notin upTasks
           /\ r \notin upDisk

\* ----------------------------------------------------------------- C30
\* the answer could not be generated
GenerationFailed ==
  /\ Len(ragError) >= 2
  /\ ragError[2] = "AI response generation failed"

\* the exchange could not be saved
SaveFailed ==
  /\ ragReply.error # << >>
  /\ ragReply.error[1] = "Conversation save failed"

\* C30: a query-time failure, nothing relevant found or an error of the
\* answer generation, ends in a graceful fallback answer and never in the
\* raw service error in the response.
C30_GracefulFallback ==
  ragPc = "replied" =>
    /\ (ragResult = NotFoundAnswer /\ ~SaveFailed) =>
         /\ ragReply.status = 200
         /\ ragReply.response = NotFoundAnswer.text
    /\ GenerationFailed => ragReply.success /\ ragReply.error = << >>

\* ----------------------------------------------------------------- C31
\* a step of a chat request
QrChatStep == \E c \in QuestionIds : qrPc'[c] # qrPc[c]

\* C31: answering a question is read-only against the vector index: a step
\* of a chat request neither creates the index nor adds or removes a
\* VectorRecord, however many questions are asked at once.
C31_ChatReadsOnly ==
  [][QrChatStep => /\ qrIndex' = qrIndex
                   /\ qrRecords' = qrRecords
                   /\ qrWrites' = << >>]_vars

\* two questions answered at once from an index that holds records
C31_Witness ==
  /\ \A c \in QuestionIds : qrPc[c] = "answered"
  /\ qrRecords # {}
  /\ qrHandle

\* ----------------------------------------------------------------- C32
\* the delete route removes the row of v in this step
RecordingDeleted(v) == dl[v] = "row" /\ dl'[v] = "done"

\* C32: exchanges are append-only: an exchange of a recording is removed
\* only by the deletion of the recording (or of its conversation); no other
\* operation, reprocess in particular, removes a recording's exchanges.
C32_ExchangesAppendOnly ==
  [][\A v \in Videos :
       exchanges'[v] < exchanges[v] => RecordingDeleted(v)]_vars

\* ----------------------------------------------------------------- C33
\* no pipeline task runs for v: the recording is ready, failed or deleted
NoTaskFor(v) ==
  \/ videos[v] = NoVideo
  \/ videos[v].status \in {"ready", "failed"}

\* C33: whenever no pipeline task is running for a recording, every
\* VectorRecord of the recording in the index references a chunk that exists
\* in the record store, for every interleaving of pipeline runs with delete
\* and reprocess requests.
C33_VectorsReferenceChunks ==
  \A v \in Videos : NoTaskFor(v) => vectors[v] \subseteq textChunks[v]

\* ----------------------------------------------------------------- C34
\* C34: every successful transcribeAudio call, below or above the maximum
\* size, returns text, language, duration and a segment list in which every
\* segment has start, end, text and a confidence value.
C34_SameShape ==
  trPc \in {"returned", "done"} =>
    /\ {"text", "language", "duration", "segments"} \subseteq DOMAIN trResult
    /\ \A k \in 1..Len(trResult.segments) :
         {"start", "end", "text", "confidence"}
           \subseteq DOMAIN trResult.segments[k]

\* ----------------------------------------------------------------- C35
\* some citation of the returned list lies within 5 seconds of the time
NearRetained(seconds) ==
  \E n \in 1..Len(citeResult) :
    Abs(citeResult[n].time - seconds) < DedupWindow

\* C35: deduplication drops a citation only if its reference time is within
\* 5 seconds of a citation that is retained in the output: an attributed
\* token at least 5 seconds away from every retained citation is cited.
C35_DroppedOnlyNearRetained ==
  Returned =>
    \A i \in Attributed :
      ~Cited(i) => NearRetained(TokenSeconds(citeResponse[i]))

\* ----------------------------------------------------------------- C36
\* C36: in every reachable state of a recording's row, status = ready
\* exactly when stage = completed, status = failed exactly when stage =
\* failed, and status = processing in every other stage, across the writes
\* of upload, pipeline, failure handler and reprocess.
C36_StatusMatchesStage ==
  \A v \in Videos :
    videos[v].exists =>
      /\ videos[v].status = "ready"
           <=> videos[v].stage = processingStages.COMPLETED
      /\ videos[v].status = "failed"
           <=> videos[v].stage = processingStages.FAILED
      /\ videos[v].stage \notin
           {processingStages.COMPLETED, processingStages.FAILED}
           => videos[v].status = "processing"

\* a recording that completed and was then reset by a reprocess request
C36_Witness ==
  \E v \in Videos : \E h \in RpIds :
    /\ rp[h].pc = "done" /\ rp[h].video = v /\ rp[h].read = "ready"
    /\ videos[v].exists
    /\ videos[v].status = "processing"
    /\ videos[v].stage = processingStages.UPLOADING

\* ----------------------------------------------------------------- C37
\* request c answers in this step: generateRAGResponse with its query
\* embedding, searches and generation, then saveConversation
ChatAnswers(c) == chat[c].pc = "answer" /\ chat'[c].pc = "done"

\* C37: a chat request for a recording whose status read at the start of the
\* request is not ready, or that does not exist, is rejected before any
\* query embedding, search or generation call and creates no exchange.
C37_NotReadyRejected ==
  /\ [][\A c \in ChatIds :
          (chat[c].pc = "idle" /\ chat'[c].pc # "idle"
             /\ ~(videos[chat'[c].video].exists
                   /\ videos[chat'[c].video].status = "ready"))
            => chat'[c].pc = "done" /\ chat'[c].read # "ready"]_vars
  /\ [](\A c \in ChatIds :
          (chat[c].pc # "idle" /\ chat[c].read # "ready")
            => chat[c].pc = "done")
  /\ [][\A v \in Videos :
          exchanges'[v] > exchanges[v] =>
            \E c \in ChatIds :
              ChatAnswers(c) /\ chat[c].video = v /\ chat[c].read = "ready"]_vars

\* a question about a recording that is being processed was rejected
C37_Witness ==
  \E c \in ChatIds :
    /\ chat[c].pc = "done"
    /\ chat[c].read = "processing"
    /\ exchanges[chat[c].video] = 0

\* ----------------------------------------------------------------- C38
\* the attempts of a concluded call: the first one and one per retry
Attempts(n) == Len(embCalls[n].delays) + 1

BatchCallsOf(b) == {n \in BatchCalls : embCalls[n].batch = b}

RECURSIVE SumAttempts(_)
SumAttempts(calls) ==
  IF calls = {} THEN 0
  ELSE LET n == CHOOSE m \in calls : TRUE
       IN Attempts(n) + SumAttempts(calls \ {n})

\* the attempts already made by the call in progress on batch b
PendingAttempts(b) ==
  IF embPc \in {"batch_call", "item_call"} /\ embBatch = b
  THEN embRetry ELSE 0

AttemptsOnBatch(b) ==
  SumAttempts(BatchCallsOf(b) \cup ItemCallsOf(b)) + PendingAttempts(b)

\* generateEmbeddings has returned or thrown
EmbSettled == embPc \notin {"start", "batch_call", "item_call"}

AttemptsBounded ==
  \A b \in 1..Len(EmbBatches) :
    LET n == Len(EmbBatches[b]) IN
      /\ Cardinality(BatchCallsOf(b)) <= 1
      /\ \A c \in BatchCallsOf(b) : Attempts(c) <= embMaxRetries + 1
      /\ PendingAttempts(b) <= embMaxRetries
      /\ (ItemCallsOf(b) # {} \/ (embPc = "item_call" /\ embBatch = b))
           => \E c \in BatchCallsOf(b) :
                ~embCalls[c].ok /\ Attempts(c) = embMaxRetries + 1
      /\ Cardinality(ItemCallsOf(b)) <= n
      /\ \A c \in ItemCallsOf(b) : Attempts(c) <= embMaxRetries + 1
      /\ AttemptsOnBatch(b) <= (embMaxRetries + 1) * (1 + n)

\* C38: generateEmbeddings terminates for every input and every pattern of
\* embedding-API failures, and for a batch of n chunks it makes at most
\* maxRetries+1 batch-level attempts followed, only if all of them failed,
\* by at most maxRetries+1 attempts for each of the n chunks.
C38_EmbeddingTerminates ==
  /\ []AttemptsBounded
  /\ <>EmbSettled

\* every attempt the bound allows was made on the first batch
C38_Witness ==
  /\ EmbSettled
  /\ Len(EmbBatches) >= 1
  /\ Len(EmbBatches[1]) = BatchSize
  /\ AttemptsOnBatch(1) = (embMaxRetries + 1) * (1 + BatchSize)

\* ----------------------------------------------------------------- C39
\* the VectorRecords stored for the chunk of a row
VectorsOfRow(r) ==
  {vec \in dbVectors : vec.metadata.chunkIndex = r.chunk_index}

\* C39: after a pipeline run completes, every chunk row it persisted has
\* has_embedding = true exactly when a VectorRecord was stored for that
\* chunk, pinecone_id then being that record's id, so the status endpoint's
\* count of chunks with embeddings equals the number of the recording's
\* vectors in the index.
C39_RowsMatchVectors ==
  dbPc = "completed" =>
    /\ \A r \in dbRows :
         /\ r.has_embedding <=> VectorsOfRow(r) # {}
         /\ r.has_embedding =>
              \E vec \in VectorsOfRow(r) : r.pinecone_id = vec.id
    /\ embeddedChunksCount = Cardinality(dbVectors)
    /\ dbReport # << >> =>
         dbReport[1].withEmbeddings = Cardinality(dbVectors)
====
